---- MODULE Spec2Model ----
(***************************************************************************)
(* FastScape landscape evolution (Barnes2018-Landscape).                   *)
(*                                                                         *)
(* The model follows class FastScape_RBGPU of fastscape_RB+GPU.cpp (serial *)
(* ordering, push accumulation) and class FastScape_RBPQ of                *)
(* fastscape_RB+PQ.cpp (one private stack per thread, pull accumulation).  *)
(*                                                                         *)
(* Elevations are doubles in the program.  Here they are fixed-point       *)
(* numbers: an elevation e is held as the integer e*Scale.  Sums and       *)
(* differences are exact; every product or quotient of the Newton step is  *)
(* rounded down to the grid, one rounding per arithmetic operation.        *)
(***************************************************************************)
EXTENDS Integers, Sequences, FiniteSets, TLC

\* ---------------------------------------------------------------- bounds
\* Side of the square grid (main passes <Dimension> as width and height).
Dimension == 7
\* Seeds 0..MaxSeed of the terrain generator are explored.
MaxSeed == 119
\* Seeds 0..MaxSeedP are explored with the worker interleavings of FastScape_RBP.
MaxSeedP == 39
\* rand() returns a value in 0..RandMax.
RandMax == 4
\* run(nstep) is explored for nstep = 0 and for nstep = MaxNstep.
MaxNstep == 1
\* Seeds 0..MaxSeedT are explored with the thread interleavings of FastScape_RBPQ.
MaxSeedT == 5
\* Side of the square grid of FastScape_RBGPUgraph: its interior holds cells
\* without a neighbour on the second ring.
DimensionG == 8
\* Seeds 0..MaxSeedG are explored with the frontier walks of FastScape_RBGPUgraph.
MaxSeedG == 59
\* The gang runs are explored on grids of 3..MaxGangHeight rows.
MaxGangHeight == 7
\* Seeds 0..MaxSeedGang are explored with the gang runs.
MaxSeedGang == 3
\* A read of stack[p] that nothing has written yields a c with ndon[c] in
\* 0..GarbageDonors.
GarbageDonors == 1
\* Fixed-point units per unit of elevation.
Scale == 1000
\* The parallel variants are run with 1..MaxThreads OpenMP threads.
MaxThreads == 2
\* The if clause of the parallel for over a level of FastScape_RBP::Erode: a
\* level of more than ParallelIf cells is run by the whole team.  The source
\* has 500, for grids of 501x501 cells; the threshold is scaled with the grid.
ParallelIf == 1

\* ------------------------------------------------------- program constants
NO_FLOW == -1
cell_area == 40000
dt == 1000
\* ueq = 2e-3, in thousandths
ueq_milli == 2
\* tol = 1e-3, in thousandths
tol_milli == 1
\* neq = 2: pow(x,neq) is x*x and pow(x,neq-1) is x
neq == 2
\* Content of an array slot that was allocated and never written.
Uninit == -2

VARIABLES
  width,    \* number of columns of the grid
  height    \* number of rows of the grid

size == width * height

\* nshift offsets:   1 2 3
\*                   0   4
\*                   7 6 5
nshift == << -1, -width - 1, -width, -width + 1, 1, width + 1, width, width - 1 >>

\* Offset of direction n (0..7); sequences are 1-based.
Shift(n) == nshift[n + 1]

\* dr = {1,SQRT2,1,SQRT2,...}: the square of dr[n], which is pow(dr[n],neq).
dr2(n) == IF n % 2 = 0 THEN 1 ELSE 2

\* ueq*dt in fixed-point units.
UpliftUnits == (ueq_milli * dt * Scale) \div 1000

\* tol in fixed-point units.
TolUnits == (tol_milli * Scale) \div 1000

\* floor(1000*keq*dt*pow(cell_area*k,meq)) for k = 1..100, keq = 2e-6, meq = 0.8
FactTable ==
  << 9608, 16730, 23140, 29129, 34822, 40290, 45578, 50716, 55727,
     60628, 65432, 70149, 74788, 79356, 83859, 88302, 92690, 97027,
     101316, 105560, 109762, 113924, 118048, 122136, 126191, 130213, 134205,
     138167, 142100, 146007, 149888, 153743, 157575, 161384, 165170, 168935,
     172678, 176402, 180106, 183791, 187458, 191107, 194738, 198353, 201951,
     205534, 209101, 212652, 216189, 219712, 223220, 226715, 230196, 233664,
     237119, 240562, 243993, 247411, 250818, 254213, 257597, 260970, 264332,
     267683, 271024, 274355, 277675, 280986, 284287, 287578, 290860, 294133,
     297396, 300651, 303897, 307134, 310363, 313583, 316795, 319999, 323196,
     326384, 329564, 332737, 335902, 339060, 342210, 345353, 348489, 351618,
     354740, 357855, 360964, 364066, 367161, 370249, 373332, 376408, 379477,
     382540 >>

Cells == 0 .. (size - 1)
Dirs == 0 .. 7

X(c) == c % width
Y(c) == c \div width

\* Outermost ring.
Halo(c) == X(c) = 0 \/ Y(c) = 0 \/ X(c) = width - 1 \/ Y(c) = height - 1

\* Cells visited by for(y=1;y<height-1) for(x=1;x<width-1).
Frame(c) == X(c) >= 1 /\ X(c) <= width - 2 /\ Y(c) >= 1 /\ Y(c) <= height - 2

\* Cells visited by for(y=2;y<height-2) for(x=2;x<width-2).
Interior(c) == X(c) >= 2 /\ X(c) <= width - 3 /\ Y(c) >= 2 /\ Y(c) <= height - 3

\* Second ring: x==1 || y==1 || x==width-2 || y==height-2, off the halo.
Ring2(c) == Frame(c) /\ ~Interior(c)

Abs(x) == IF x < 0 THEN -x ELSE x

\* floor(a*b/c) for c > 0, without forming a*b.
MulDiv(a, b, c) == a * (b \div c) + (a * (b % c)) \div c

\* The cells that the loops for(y=1;y<height-1) for(x=1;x<width-1) visit, in
\* row-major order: entry i is the cell of the i-th iteration.
FrameCells ==
  [i \in 1 .. (width - 2) * (height - 2) |->
     (1 + ((i - 1) \div (width - 2))) * width + (1 + ((i - 1) % (width - 2)))]

\* ------------------------------------------------------------ random terrain
\* The stream of rand(): a 16-bit linear congruential generator stands for the
\* C library generator, so that a terrain is a function of the seed.
LcgNext(x) == (25173 * x + 13849) % 65536

\* State of the generator after k draws.
RECURSIVE LcgStates(_, _)
LcgStates(x, k) ==
  IF k = 0 THEN << >> ELSE << LcgNext(x) >> \o LcgStates(LcgNext(x), k - 1)

\* rand(): the high bits of the state, reduced to 0..RandMax.
RandOf(x) == (x \div 256) % (RandMax + 1)

\* GenerateRandomTerrain: one draw per cell in row-major order, h = rand()/RAND_MAX,
\* then both outer rings are forced to 0.
GenerateRandomTerrain(seed) ==
  LET st == LcgStates(seed, size)
  IN  [c \in Cells |->
         IF Halo(c) \/ Ring2(c) THEN 0
         ELSE (RandOf(st[c + 1]) * Scale) \div RandMax]

VARIABLES
  h,        \* elevation, fixed point
  accum,    \* flow accumulation
  rec,      \* receiver direction of each cell, or NO_FLOW
  donor,    \* donor[8*c+k]: k-th donor of c
  ndon,     \* number of donors of c
  stack,    \* processing order
  levels,   \* level boundaries in stack
  nlevel,   \* number of entries of levels in use
  nstack,   \* number of entries of stack in use (local of GenerateOrder)
  pc,       \* stage of run() about to execute
  step,     \* loop variable of run()
  li,       \* Erode: level index
  si,       \* Erode: stack index
  nwrite,   \* number of writes of h[c] by Erode in the current step
  variant,  \* "GPU": FastScape_RBGPU, "PQ": FastScape_RBPQ
  nthreads, \* PQ: number of threads of the parallel region
  tstack,   \* PQ: tstack[t] is the private stack of thread t
  tlevels,  \* PQ: tlevels[t] is the private levels of thread t
  tnlevel,  \* PQ: tnlevel[t] is the private nlevel of thread t
  wk,       \* P: wk[t] is worker t of the parallel for over one level of Erode
  hstep,    \* the elevations ComputeReceivers read in the current step
  nstep,    \* the argument of run(): the loop runs for step = 0..nstep
  tpc,      \* PQ: tpc[t] is the stage of the step that thread t is at
  graph_mask,           \* graph: the cell is on the frontier
  graph_updating_mask,  \* graph: the cell comes onto the frontier next
  graph_visited,        \* graph: the cell has been on the frontier
  keep_going,           \* graph: the frontier is not empty
  nfront,   \* graph: number of times the cell came onto the frontier
  gstack,   \* gang: gstack[p] is the set of values the gangs can leave in stack[p]
  gout,     \* gang: gout[g] is the set of outcomes of gang g: entries appended, nlevel
  thrown    \* gang: what() of the exception GenerateOrder has thrown, or ""

vars == << width, height, h, accum, rec, donor, ndon, stack, levels, nlevel, nstack, pc, step,
           li, si, nwrite, variant, nthreads, tstack, tlevels, tnlevel, wk, hstep, nstep,
           tpc, graph_mask, graph_updating_mask, graph_visited, keep_going, nfront,
           gstack, gout, thrown >>

\* The grid, the arguments of run() and the private arrays of the PQ threads.
teamvars == << width, height, nstep, variant, nthreads, tstack, tlevels, tnlevel >>

\* The frontier of FastScape_RBGPUgraph and the gangs of the gang-independent
\* FastScape_RBGPU.
graphvars == << graph_mask, graph_updating_mask, graph_visited, keep_going, nfront >>

gangvars == << gstack, gout, thrown >>

\* The variables of the PQ and graph variants that the stages shared with GPU
\* leave alone.
pqvars == << teamvars, tpc, graphvars, gangvars >>

\* ------------------------------------------------------------- receivers
\* slope d1/sqrt(l1) > d2/sqrt(l2), for squared lengths l1,l2 in {1,2}.  The
\* comparison of the two quotients is decided exactly.
SlopeGt(d1, l1, d2, l2) ==
  IF l1 = l2 THEN d1 > d2
  ELSE IF d1 >= 0 /\ d2 >= 0 THEN d1 * d1 * l2 > d2 * d2 * l1
  ELSE IF d1 >= 0 THEN TRUE
  ELSE IF d2 >= 0 THEN FALSE
  ELSE d1 * d1 * l2 < d2 * d2 * l1

\* ReceiverScan with slope>=max_slope in place of slope>max_slope.
RECURSIVE ReceiverScanLastWins(_, _, _, _, _, _)
ReceiverScanLastWins(hh, c, n, md, ml, mn) ==
  IF n > 7 THEN mn
  ELSE IF ~SlopeGt(md, ml, hh[c] - hh[c + Shift(n)], dr2(n))
       THEN ReceiverScanLastWins(hh, c, n + 1, hh[c] - hh[c + Shift(n)], dr2(n), n)
       ELSE ReceiverScanLastWins(hh, c, n + 1, md, ml, mn)

\* The neighbour scan of ComputeReceivers from direction n on; (md,ml) is
\* max_slope as difference and squared length, mn is max_n.
RECURSIVE ReceiverScan(_, _, _, _, _, _)
ReceiverScan(hh, c, n, md, ml, mn) ==
  IF n > 7 THEN mn
  ELSE IF SlopeGt(hh[c] - hh[c + Shift(n)], dr2(n), md, ml)
       THEN ReceiverScan(hh, c, n + 1, hh[c] - hh[c + Shift(n)], dr2(n), n)
       ELSE ReceiverScan(hh, c, n + 1, md, ml, mn)

\* ReceiverOf with the slope taken as (h[n]-h[c])/dr[n].
ReceiverOfUphill(hh, c) == ReceiverScan([x \in Cells |-> -hh[x]], c, 0, 0, 1, NO_FLOW)

\* rec[c] as ComputeReceivers leaves it: max_slope = 0, max_n = NO_FLOW, scan.
ReceiverOf(hh, c) == ReceiverScan(hh, c, 0, 0, 1, NO_FLOW)

\* rec after the loop of ComputeReceivers over the interior cells, from
\* elevations hh and the previous contents r.
ReceiversPass(hh, r) == [c \in Cells |-> IF Interior(c) THEN ReceiverOf(hh, c) ELSE r[c]]

\* The same code in both classes.
ComputeReceivers ==
  /\ pc = "ComputeReceivers"
  /\ rec' = ReceiversPass(h, rec)
  /\ hstep' = h
  /\ pc' = "ComputeDonors"
  /\ UNCHANGED << h, accum, donor, ndon, stack, levels, nlevel, nstack, step,
                  li, si, nwrite, pqvars, wk >>

\* ---------------------------------------------------------------- donors
\* DonorScan with the test rec[n]==ni in place of n+nshift[rec[n]]==c.
RECURSIVE DonorScanSameDir(_, _, _)
DonorScanSameDir(r, c, ni) ==
  IF ni > 7 THEN << >>
  ELSE LET n == c + Shift(ni)
       IN  IF r[n] # NO_FLOW /\ r[n] = ni
           THEN << n >> \o DonorScanSameDir(r, c, ni + 1)
           ELSE DonorScanSameDir(r, c, ni + 1)

\* The neighbours n of c, in direction order, that the test of ComputeDonors
\* accepts: rec[n]!=NO_FLOW && n+nshift[rec[n]]==c.
RECURSIVE DonorScan(_, _, _)
DonorScan(r, c, ni) ==
  IF ni > 7 THEN << >>
  ELSE LET n == c + Shift(ni)
       IN  IF r[n] # NO_FLOW /\ n + Shift(r[n]) = c
           THEN << n >> \o DonorScan(r, c, ni + 1)
           ELSE DonorScan(r, c, ni + 1)

\* DonorsCount without ndon[c]=0 before the scan: the count goes on from nd[c].
DonorsCountNoReset(r, nd) ==
  [c \in Cells |-> IF Frame(c) THEN nd[c] + Len(DonorScan(r, c, 0)) ELSE nd[c]]

\* ndon after the loop of ComputeDonors over the frame cells: ndon[c]=0, then
\* one increment for every neighbour the test accepts.
DonorsCount(r, nd) ==
  [c \in Cells |-> IF Frame(c) THEN Len(DonorScan(r, c, 0)) ELSE nd[c]]

\* donor after the loop of ComputeDonors: the accepted neighbours of c are
\* stored from donor[8*c] on, the rest of the array keeps its contents.
DonorsFill(r, dn) ==
  [i \in 0 .. (8 * size - 1) |->
     LET c == i \div 8
         k == i % 8
     IN  IF Frame(c) /\ k < Len(DonorScan(r, c, 0))
         THEN DonorScan(r, c, 0)[k + 1]
         ELSE dn[i]]

\* The same code in both classes.
ComputeDonors ==
  /\ pc = "ComputeDonors"
  /\ variant # "P"
  /\ ndon' = DonorsCount(rec, ndon)
  /\ donor' = DonorsFill(rec, donor)
  /\ pc' = "GenerateOrder"
  /\ UNCHANGED << h, accum, rec, stack, levels, nlevel, nstack, step, li, si, nwrite,
                  pqvars, wk, hstep >>

\* -------------------------------------------------------------- ordering
stack_width == size
level_width == size

\* SeedScan taking the cells of the second ring only.
SeedScanRing2(r, cs) == SelectSeq(cs, LAMBDA c : Ring2(c))

\* The first loop of GenerateOrder: the cells of cs with rec = NO_FLOW, in order.
SeedScan(r, cs) == SelectSeq(cs, LAMBDA c : r[c] = NO_FLOW)

\* donor[8*c .. 8*c+ndon[c]) as a sequence.
DonorsOf(nd, dn, c) == [k \in 1 .. nd[c] |-> dn[8 * c + k - 1]]

\* PushDonors with the loop bound si<level_top-1.
RECURSIVE PushDonorsShort(_, _, _, _, _)
PushDonorsShort(nd, dn, stk, from, to) ==
  IF from >= to - 1 THEN stk
  ELSE PushDonorsShort(nd, dn, stk \o DonorsOf(nd, dn, stk[from + 1]), from + 1, to)

\* PushDonors with the loop bound si<nstack, read anew in every iteration.
RECURSIVE PushDonorsLive(_, _, _, _, _)
PushDonorsLive(nd, dn, stk, from, to) ==
  IF from >= Len(stk) THEN stk
  ELSE PushDonorsLive(nd, dn, stk \o DonorsOf(nd, dn, stk[from + 1]), from + 1, to)

\* The inner for loop over si in [from, to): the donors of stk[si] are pushed.
\* Positions are 0-based as in the code.
RECURSIVE PushDonors(_, _, _, _, _)
PushDonors(nd, dn, stk, from, to) ==
  IF from >= to THEN stk
  ELSE PushDonors(nd, dn, stk \o DonorsOf(nd, dn, stk[from + 1]), from + 1, to)

\* The while loop of GenerateOrder.  A stack longer than sw stops the loop:
\* the assertion on nstack after a push has failed.
RECURSIVE OrderLoop(_, _, _, _, _, _, _)
OrderLoop(nd, dn, stk, lv, level_bottom, level_top, sw) ==
  IF ~(level_bottom < level_top) \/ Len(stk) > sw
  THEN [stk |-> stk, lv |-> lv]
  ELSE LET stk2 == PushDonors(nd, dn, stk, level_top, Len(stk))
       IN  OrderLoop(nd, dn, stk2, Append(lv, Len(stk2)), level_top, Len(stk), sw)

\* Result of GenerateOrder: the stack, the entries written to levels, and
\* whether every assertion held.
OrderOf(r, nd, dn) ==
  LET seeds == SeedScan(r, FrameCells)
      res   == OrderLoop(nd, dn, seeds, << 0, Len(seeds) >>, -1, 0, stack_width)
  IN  [stk |-> res.stk,
       lv  |-> res.lv,
       ok  |-> /\ Len(seeds) < stack_width
               /\ 2 < level_width
               /\ Len(res.stk) <= stack_width
               /\ Len(res.lv) <= level_width
               /\ res.lv[Len(res.lv) - 1] = Len(res.stk)]

GenerateOrder ==
  /\ pc = "GenerateOrder"
  /\ variant = "GPU"
  /\ LET o == OrderOf(rec, ndon, donor)
     IN  IF o.ok
         THEN /\ stack' = [i \in 0 .. (stack_width - 1) |->
                             IF i < Len(o.stk) THEN o.stk[i + 1] ELSE stack[i]]
              /\ levels' = [i \in 0 .. (level_width - 1) |->
                              IF i < Len(o.lv) THEN o.lv[i + 1] ELSE levels[i]]
              /\ nlevel' = Len(o.lv) - 1
              /\ nstack' = Len(o.stk)
              /\ pc' = "ComputeFlowAcc"
         ELSE /\ pc' = "Abort"
              /\ UNCHANGED << stack, levels, nlevel, nstack >>
  /\ UNCHANGED << h, accum, rec, donor, ndon, step, li, si, nwrite, pqvars, wk, hstep >>

\* ---------------------------------------------------------- accumulation
\* Receiver cell of c (c+nshift[rec[c]]), for rec[c] != NO_FLOW.
RecCell(r, c) == c + Shift(r[c])

\* FlowAccCells with accum[n] = accum[c] in place of accum[n] += accum[c].
RECURSIVE FlowAccCellsStore(_, _, _)
FlowAccCellsStore(acc, s, lvlend) ==
  IF s >= lvlend THEN acc
  ELSE LET c == stack[s]
       IN  IF rec[c] # NO_FLOW
           THEN FlowAccCellsStore([acc EXCEPT ![RecCell(rec, c)] = acc[c]], s + 1, lvlend)
           ELSE FlowAccCellsStore(acc, s + 1, lvlend)

\* One level of the push loop: positions s in [s, lvlend).
RECURSIVE FlowAccCells(_, _, _)
FlowAccCells(acc, s, lvlend) ==
  IF s >= lvlend THEN acc
  ELSE LET c == stack[s]
       IN  IF rec[c] # NO_FLOW
           THEN FlowAccCells([acc EXCEPT ![RecCell(rec, c)] = @ + acc[c]], s + 1, lvlend)
           ELSE FlowAccCells(acc, s + 1, lvlend)

\* FlowAccLevels with the loop condition li>=2.
RECURSIVE FlowAccLevelsFrom2(_, _)
FlowAccLevelsFrom2(acc, l) ==
  IF l < 2 THEN acc
  ELSE FlowAccLevelsFrom2(FlowAccCells(acc, levels[l], levels[l + 1]), l - 1)

\* for(li=nlevel-2;li>=1;li--)
RECURSIVE FlowAccLevels(_, _)
FlowAccLevels(acc, l) ==
  IF l < 1 THEN acc
  ELSE FlowAccLevels(FlowAccCells(acc, levels[l], levels[l + 1]), l - 1)

ComputeFlowAcc ==
  /\ pc = "ComputeFlowAcc"
  /\ variant = "GPU"
  /\ accum' = FlowAccLevels([c \in Cells |-> cell_area], nlevel - 2)
  /\ pc' = "AddUplift"
  /\ UNCHANGED << h, rec, donor, ndon, stack, levels, nlevel, nstack, step, li, si,
                  nwrite, pqvars, wk, hstep >>

\* ----------------------------------------------------------------- uplift
\* AddUplift with the loops running over y,x in 1..height-2, 1..width-2.
AddUpliftFrame ==
  /\ pc = "AddUplift"
  /\ variant = "GPU"
  /\ h' = [c \in Cells |-> IF Frame(c) THEN h[c] + UpliftUnits ELSE h[c]]
  /\ pc' = "Erode"
  /\ UNCHANGED << accum, rec, donor, ndon, stack, levels, nlevel, nstack, step, li, si,
                  nwrite, pqvars, wk, hstep >>

AddUplift ==
  /\ pc = "AddUplift"
  /\ variant = "GPU"
  /\ h' = [c \in Cells |-> IF Interior(c) THEN h[c] + UpliftUnits ELSE h[c]]
  /\ pc' = "Erode"
  /\ UNCHANGED << accum, rec, donor, ndon, stack, levels, nlevel, nstack, step, li, si,
                  nwrite, pqvars, wk, hstep >>

\* ---------------------------------------------------------------- erosion
\* 1000*fact, fact = keq*dt*pow(accum[c],meq)/pow(length,neq).
FactMilli(a, d) == FactTable[a \div cell_area] \div dr2(d)

\* NewtonStep with pow(hnew,neq) in place of pow(hnew-hn,neq): the slope is
\* taken against elevation 0.
NewtonStepNoReceiver(hnew, h0, hn, fm) ==
  LET d   == hnew
      t   == MulDiv(fm, d, 1000)
      num == (hnew - h0) + MulDiv(t, d, Scale)
      den == Scale + neq * t
  IN  hnew - MulDiv(Scale, num, den)

\* One Newton-Raphson update of hnew:
\*   hnew - (hnew-h0+fact*pow(hnew-hn,neq))/(1.+fact*neq*pow(hnew-hn,neq-1))
NewtonStep(hnew, h0, hn, fm) ==
  LET d   == hnew - hn
      t   == MulDiv(fm, d, 1000)
      num == (hnew - h0) + MulDiv(t, d, Scale)
      den == Scale + neq * t
  IN  hnew - MulDiv(Scale, num, den)

\* while(std::abs(diff)>tol){ hnew -= ...; diff = hnew - hp; hp = hnew; }
RECURSIVE NewtonLoop(_, _, _, _, _, _)
NewtonLoop(hnew, hp, diff, h0, hn, fm) ==
  IF Abs(diff) > TolUnits
  THEN LET x == NewtonStep(hnew, h0, hn, fm)
       IN  NewtonLoop(x, x, x - hp, h0, hn, fm)
  ELSE hnew

\* The value Erode stores in h[c] for a cell c with a receiver.
ErodeValue(hh, acc, r, c) ==
  NewtonLoop(hh[c], hh[c], 2 * TolUnits, hh[c], hh[RecCell(r, c)], FactMilli(acc[c], r[c]))

\* Erode is entered: li = 0 and si = levels[0].
ErodeEnter ==
  /\ pc = "Erode"
  /\ variant = "GPU"
  /\ pc' = "ErodeLoop"
  /\ li' = 0
  /\ si' = IF 0 < nlevel - 1 THEN levels[0] ELSE si
  /\ nwrite' = [c \in Cells |-> 0]
  /\ UNCHANGED << h, accum, rec, donor, ndon, stack, levels, nlevel, nstack, step,
                  pqvars, wk, hstep >>

\* Erode, one iteration of the inner loop over si.
ErodeCell ==
  /\ pc = "ErodeLoop"
  /\ li < nlevel - 1
  /\ si < levels[li + 1]
  /\ LET c == stack[si]
     IN  IF rec[c] = NO_FLOW
         THEN UNCHANGED << h, nwrite >>
         ELSE /\ h' = [h EXCEPT ![c] = ErodeValue(h, accum, rec, c)]
              /\ nwrite' = [nwrite EXCEPT ![c] = @ + 1]
  /\ si' = si + 1
  /\ UNCHANGED << accum, rec, donor, ndon, stack, levels, nlevel, nstack, pc, step, li,
                  pqvars, wk, hstep >>

\* ErodeNextLevel with li += 2.
ErodeNextLevelSkip ==
  /\ pc = "ErodeLoop"
  /\ li < nlevel - 1
  /\ si >= levels[li + 1]
  /\ li' = li + 2
  /\ si' = IF li + 2 < nlevel - 1 THEN levels[li + 2] ELSE si
  /\ UNCHANGED << h, accum, rec, donor, ndon, stack, levels, nlevel, nstack, pc, step,
                  nwrite, pqvars, wk, hstep >>

\* Erode, the inner loop of level li is over: li++ and si = levels[li].
ErodeNextLevel ==
  /\ pc = "ErodeLoop"
  /\ li < nlevel - 1
  /\ si >= levels[li + 1]
  /\ li' = li + 1
  /\ si' = IF li + 1 < nlevel - 1 THEN levels[li + 1] ELSE si
  /\ UNCHANGED << h, accum, rec, donor, ndon, stack, levels, nlevel, nstack, pc, step,
                  nwrite, pqvars, wk, hstep >>

\* ErodeReturn with the loop of run() re-entered behind ComputeReceivers.
ErodeReturnToDonors ==
  /\ pc = "ErodeLoop"
  /\ li >= nlevel - 1
  /\ step' = step + 1
  /\ pc' = IF step + 1 <= nstep THEN "ComputeDonors" ELSE "Done"
  /\ UNCHANGED << h, accum, rec, donor, ndon, stack, levels, nlevel, nstack, li, si,
                  nwrite, pqvars, wk, hstep >>

\* Erode returns; for(step=0;step<=nstep;step++) of run().
ErodeReturn ==
  /\ pc = "ErodeLoop"
  /\ li >= nlevel - 1
  /\ step' = step + 1
  /\ pc' = IF step + 1 <= nstep THEN "ComputeReceivers" ELSE "Done"
  /\ UNCHANGED << h, accum, rec, donor, ndon, stack, levels, nlevel, nstack, li, si,
                  nwrite, pqvars, wk, hstep >>

\* ------------------------------------------------- FastScape_RBPQ (threads)
\* ComputeReceivers and ComputeDonors are the same code as in FastScape_RBGPU.
\* The class leaves the terrain to its caller; the runs modelled here start
\* from the terrain of GenerateRandomTerrain.  Each stage is run to its end by
\* every thread, thread 0 first, before the next stage starts.
\* stack_width of FastScape_RBPQ::run for T threads.
pq_stack_width(T) == IF 300000 > (5 * size) \div T THEN 300000 ELSE (5 * size) \div T

\* schedule(static) without a chunk size: the n iterations are cut into T
\* contiguous blocks, the first n%T of them one longer; thread t runs
\* iterations ChunkLo .. ChunkHi-1.
\* ChunkLo with the blocks of the threads behind thread 0 starting one
\* iteration early.
ChunkLoShifted(n, T, t) ==
  LET q == n \div T
      r == n % T
  IN  IF t = 0 THEN 0
      ELSE IF t < r THEN t * (q + 1) - 1 ELSE r * (q + 1) + (t - r) * q - 1

ChunkLo(n, T, t) ==
  LET q == n \div T
      r == n % T
  IN  IF t < r THEN t * (q + 1) ELSE r * (q + 1) + (t - r) * q

ChunkHi(n, T, t) == ChunkLo(n, T, t) + (IF t < (n % T) THEN (n \div T) + 1 ELSE n \div T)

\* for(y=1;y<height-1;y++): iterations i = y-1 in [i, hi).
RECURSIVE PQEdgeRows(_, _)
PQEdgeRows(i, hi) ==
  IF i >= hi THEN << >>
  ELSE << (1 + i) * width + 1, (1 + i) * width + (width - 2) >> \o PQEdgeRows(i + 1, hi)

\* PQEdgeCols with the loop starting at x=1.
RECURSIVE PQEdgeColsFrom1(_, _)
PQEdgeColsFrom1(i, hi) ==
  IF i >= hi THEN << >>
  ELSE << 1 * width + (1 + i), (height - 2) * width + (1 + i) >> \o PQEdgeColsFrom1(i + 1, hi)

\* for(x=2;x<width-2;x++): iterations i = x-2 in [i, hi).
RECURSIVE PQEdgeCols(_, _)
PQEdgeCols(i, hi) ==
  IF i >= hi THEN << >>
  ELSE << 1 * width + (2 + i), (height - 2) * width + (2 + i) >> \o PQEdgeCols(i + 1, hi)

\* The collapsed y,x loop over the interior: iterations i in [i, hi).
RECURSIVE PQInteriorSinks(_, _, _)
PQInteriorSinks(r, i, hi) ==
  IF i >= hi THEN << >>
  ELSE LET c == (2 + (i \div (width - 4))) * width + (2 + (i % (width - 4)))
       IN  IF r[c] = NO_FLOW THEN << c >> \o PQInteriorSinks(r, i + 1, hi)
           ELSE PQInteriorSinks(r, i + 1, hi)

\* FastScape_RBPQ::GenerateOrder as run by thread t of T.
OrderOfPQ(r, nd, dn, T, t) ==
  LET edge  == PQEdgeRows(ChunkLo(height - 2, T, t), ChunkHi(height - 2, T, t))
                 \o PQEdgeCols(ChunkLo(width - 4, T, t), ChunkHi(width - 4, T, t))
      n3    == (height - 4) * (width - 4)
      seeds == edge \o PQInteriorSinks(r, ChunkLo(n3, T, t), ChunkHi(n3, T, t))
      res   == OrderLoop(nd, dn, seeds, << 0, Len(edge), Len(seeds) >>, -1, 0,
                         pq_stack_width(T) - 1)
  IN  [stk |-> res.stk,
       lv  |-> res.lv,
       ok  |-> /\ Len(res.stk) < pq_stack_width(T)
               /\ res.lv[Len(res.lv) - 1] = Len(res.stk)]

Threads == 0 .. (nthreads - 1)

GenerateOrderPQ ==
  /\ pc = "GenerateOrder"
  /\ variant = "PQ"
  /\ IF \A t \in Threads : OrderOfPQ(rec, ndon, donor, nthreads, t).ok
     THEN /\ tstack' = [t \in Threads |-> OrderOfPQ(rec, ndon, donor, nthreads, t).stk]
          /\ tlevels' = [t \in Threads |-> OrderOfPQ(rec, ndon, donor, nthreads, t).lv]
          /\ tnlevel' = [t \in Threads |->
                           Len(OrderOfPQ(rec, ndon, donor, nthreads, t).lv) - 1]
          /\ pc' = "ComputeFlowAcc"
     ELSE /\ pc' = "Abort"
          /\ UNCHANGED << tstack, tlevels, tnlevel >>
  /\ UNCHANGED << h, accum, rec, donor, ndon, stack, levels, nlevel, nstack, step, li, si,
                  nwrite, width, height, nstep, variant, nthreads, wk, hstep, tpc,
                  graphvars, gangvars >>

\* stack[i] and levels[k] of a thread, 0-based as in the code.
At(sq, i) == sq[i + 1]

\* for(i=from;i<to;i++) accum[stack[i]] = cell_area;
RECURSIVE PQFillArea(_, _, _, _)
PQFillArea(acc, stk, from, to) ==
  IF from >= to THEN acc
  ELSE PQFillArea([acc EXCEPT ![At(stk, from)] = cell_area], stk, from + 1, to)

\* for(k=k;k<ndon[c];k++) accum[c] += accum[donor[8*c+k]];
RECURSIVE PQPullDonors(_, _, _)
PQPullDonors(acc, c, k) ==
  IF k >= ndon[c] THEN acc
  ELSE PQPullDonors([acc EXCEPT ![c] = @ + acc[donor[8 * c + k]]], c, k + 1)

RECURSIVE PQPullCells(_, _, _, _)
PQPullCells(acc, stk, s, lvlend) ==
  IF s >= lvlend THEN acc
  ELSE PQPullCells(PQPullDonors(acc, At(stk, s), 0), stk, s + 1, lvlend)

\* for(li=nlevel-3;li>=1;li--)
RECURSIVE PQPullLevels(_, _, _, _)
PQPullLevels(acc, stk, lv, l) ==
  IF l < 1 THEN acc
  ELSE PQPullLevels(PQPullCells(acc, stk, At(lv, l), At(lv, l + 1)), stk, lv, l - 1)

\* FastScape_RBPQ::ComputeFlowAcc run by threads t, t+1, ..., one after the other.
RECURSIVE PQFlowAccThreads(_, _)
PQFlowAccThreads(acc, t) ==
  IF t >= nthreads THEN acc
  ELSE LET stk == tstack[t]
           lv  == tlevels[t]
           a0  == PQFillArea(acc, stk, At(lv, 0), At(lv, tnlevel[t] - 1))
       IN  PQFlowAccThreads(PQPullLevels(a0, stk, lv, tnlevel[t] - 3), t + 1)

ComputeFlowAccPQ ==
  /\ pc = "ComputeFlowAcc"
  /\ variant = "PQ"
  /\ accum' = PQFlowAccThreads(accum, 0)
  /\ pc' = "AddUplift"
  /\ UNCHANGED << h, rec, donor, ndon, stack, levels, nlevel, nstack, step, li, si,
                  nwrite, pqvars, wk, hstep >>

\* for(i=from;i<to;i++) h[stack[i]] += ueq*dt;
RECURSIVE PQUpliftCells(_, _, _, _)
PQUpliftCells(hh, stk, from, to) ==
  IF from >= to THEN hh
  ELSE PQUpliftCells([hh EXCEPT ![At(stk, from)] = @ + UpliftUnits], stk, from + 1, to)

\* PQUpliftThreads with the loop starting at levels[0].
RECURSIVE PQUpliftThreadsFrom0(_, _)
PQUpliftThreadsFrom0(hh, t) ==
  IF t >= nthreads THEN hh
  ELSE PQUpliftThreadsFrom0(
         PQUpliftCells(hh, tstack[t], At(tlevels[t], 0), At(tlevels[t], tnlevel[t] - 1)),
         t + 1)

\* FastScape_RBPQ::AddUplift run by threads t, t+1, ...
RECURSIVE PQUpliftThreads(_, _)
PQUpliftThreads(hh, t) ==
  IF t >= nthreads THEN hh
  ELSE PQUpliftThreads(
         PQUpliftCells(hh, tstack[t], At(tlevels[t], 1), At(tlevels[t], tnlevel[t] - 1)),
         t + 1)

AddUpliftPQ ==
  /\ pc = "AddUplift"
  /\ variant = "PQ"
  /\ h' = PQUpliftThreads(h, 0)
  /\ pc' = "Erode"
  /\ UNCHANGED << accum, rec, donor, ndon, stack, levels, nlevel, nstack, step, li, si,
                  nwrite, pqvars, wk, hstep >>

\* The loop over si of FastScape_RBPQ::Erode; every cell has a receiver.
RECURSIVE PQErodeCells(_, _, _, _)
PQErodeCells(hh, stk, s, lvlend) ==
  IF s >= lvlend THEN hh
  ELSE PQErodeCells([hh EXCEPT ![At(stk, s)] = ErodeValue(hh, accum, rec, At(stk, s))],
                    stk, s + 1, lvlend)

\* for(li=2;li<nlevel-1;li++)
RECURSIVE PQErodeLevels(_, _, _, _, _)
PQErodeLevels(hh, stk, lv, l, nl) ==
  IF l >= nl - 1 THEN hh
  ELSE PQErodeLevels(PQErodeCells(hh, stk, At(lv, l), At(lv, l + 1)), stk, lv, l + 1, nl)

\* FastScape_RBPQ::Erode run by threads t, t+1, ...
RECURSIVE PQErodeThreads(_, _)
PQErodeThreads(hh, t) ==
  IF t >= nthreads THEN hh
  ELSE PQErodeThreads(PQErodeLevels(hh, tstack[t], tlevels[t], 2, tnlevel[t]), t + 1)

\* Erode and the end of the loop body of FastScape_RBPQ::run.
ErodePQ ==
  /\ pc = "Erode"
  /\ variant = "PQ"
  /\ h' = PQErodeThreads(h, 0)
  /\ step' = step + 1
  /\ pc' = IF step + 1 <= nstep THEN "ComputeReceivers" ELSE "Done"
  /\ UNCHANGED << accum, rec, donor, ndon, stack, levels, nlevel, nstack, li, si,
                  nwrite, pqvars, wk, hstep >>

\* ------------------------------------------- FastScape_RBP (parallel for)
\* ComputeReceivers is the same code as in FastScape_RBGPU.  The class leaves
\* the terrain to its caller; the runs modelled here start from the terrain of
\* GenerateRandomTerrain.

\* DonorsPush without ndon[n]++: every donor of n is stored at donor[8*n].
RECURSIVE DonorsPushNoIncrement(_, _, _, _)
DonorsPushNoIncrement(r, c, nd, dn) ==
  IF c >= size THEN [nd |-> nd, dn |-> dn]
  ELSE IF r[c] = NO_FLOW THEN DonorsPushNoIncrement(r, c + 1, nd, dn)
  ELSE LET n == c + Shift(r[c])
       IN  DonorsPushNoIncrement(r, c + 1, nd, [dn EXCEPT ![8 * n + nd[n]] = c])

\* The loop for(c=c;c<size;c++) of FastScape_RBP::ComputeDonors: every cell with
\* a receiver n is stored at donor[8*n+ndon[n]].
RECURSIVE DonorsPush(_, _, _, _)
DonorsPush(r, c, nd, dn) ==
  IF c >= size THEN [nd |-> nd, dn |-> dn]
  ELSE IF r[c] = NO_FLOW THEN DonorsPush(r, c + 1, nd, dn)
  ELSE LET n == c + Shift(r[c])
       IN  DonorsPush(r, c + 1, [nd EXCEPT ![n] = @ + 1],
                      [dn EXCEPT ![8 * n + nd[n]] = c])

ComputeDonorsP ==
  /\ pc = "ComputeDonors"
  /\ variant = "P"
  /\ LET d == DonorsPush(rec, 0, [c \in Cells |-> 0], donor)
     IN  ndon' = d.nd /\ donor' = d.dn
  /\ pc' = "GenerateOrder"
  /\ UNCHANGED << h, accum, rec, stack, levels, nlevel, nstack, step, li, si, nwrite,
                  pqvars, wk, hstep >>

\* The cells 0, 1, ..., size-1 in order: for(c=0;c<size;c++).
AllCells == [i \in 1 .. size |-> i - 1]

\* levels.resize(2*width+2*height)
levels_size == 2 * width + 2 * height

\* Result of FastScape_RBP::GenerateOrder; ok is false when an assertion fails
\* or levels is written past its end.
OrderOfP(r, nd, dn) ==
  LET seeds == SeedScan(r, AllCells)
      res   == OrderLoop(nd, dn, seeds, << 0, Len(seeds) >>, -1, 0, stack_width)
  IN  [stk |-> res.stk,
       lv  |-> res.lv,
       ok  |-> /\ Len(seeds) < stack_width
               /\ 2 < level_width
               /\ Len(res.stk) <= stack_width
               /\ Len(res.lv) <= levels_size
               /\ res.lv[Len(res.lv) - 1] = Len(res.stk)]

\* The assertions of FastScape_RBP::GenerateOrder: nstack<stack_width after
\* every seed, nlevel<level_width after the seeds, nstack<=stack_width after
\* every donor, levels[nlevel-1]==nstack at the end.
AssertsOfP(r, nd, dn) ==
  LET seeds == SeedScan(r, AllCells)
      res   == OrderLoop(nd, dn, seeds, << 0, Len(seeds) >>, -1, 0, stack_width)
  IN  /\ Len(seeds) < stack_width
      /\ 2 < level_width
      /\ Len(res.stk) <= stack_width
      /\ res.lv[Len(res.lv) - 1] = Len(res.stk)

GenerateOrderP ==
  /\ pc = "GenerateOrder"
  /\ variant = "P"
  /\ LET o == OrderOfP(rec, ndon, donor)
     IN  IF o.ok
         THEN /\ stack' = [i \in 0 .. (stack_width - 1) |->
                             IF i < Len(o.stk) THEN o.stk[i + 1] ELSE stack[i]]
              /\ levels' = [i \in 0 .. (level_width - 1) |->
                              IF i < Len(o.lv) THEN o.lv[i + 1] ELSE levels[i]]
              /\ nlevel' = Len(o.lv) - 1
              /\ nstack' = Len(o.stk)
              /\ pc' = "ComputeFlowAcc"
         ELSE /\ pc' = "Abort"
              /\ UNCHANGED << stack, levels, nlevel, nstack >>
  /\ UNCHANGED << h, accum, rec, donor, ndon, step, li, si, nwrite, pqvars, wk, hstep >>

\* for(s=s;s>=0;s--) of FastScape_RBP::ComputeFlowAcc.
RECURSIVE FlowAccStackP(_, _)
FlowAccStackP(acc, s) ==
  IF s < 0 THEN acc
  ELSE LET c == stack[s]
       IN  IF rec[c] # NO_FLOW
           THEN FlowAccStackP([acc EXCEPT ![RecCell(rec, c)] = @ + acc[c]], s - 1)
           ELSE FlowAccStackP(acc, s - 1)

ComputeFlowAccP ==
  /\ pc = "ComputeFlowAcc"
  /\ variant = "P"
  /\ accum' = FlowAccStackP([c \in Cells |-> cell_area], size - 1)
  /\ pc' = "AddUplift"
  /\ UNCHANGED << h, rec, donor, ndon, stack, levels, nlevel, nstack, step, li, si,
                  nwrite, pqvars, wk, hstep >>

AddUpliftP ==
  /\ pc = "AddUplift"
  /\ variant = "P"
  /\ h' = [c \in Cells |-> IF Interior(c) THEN h[c] + UpliftUnits ELSE h[c]]
  /\ pc' = "Erode"
  /\ UNCHANGED << accum, rec, donor, ndon, stack, levels, nlevel, nstack, step, li, si,
                  nwrite, pqvars, wk, hstep >>

\* Number of threads of the team that runs level l: if(lvlsize>ParallelIf).
TeamOf(l) == IF levels[l + 1] - levels[l] > ParallelIf THEN nthreads ELSE 1

\* A worker that has no iteration to run.
IdleWorker == [si |-> 0, end |-> 0]

\* WorkersOf with lvlend = levels[nlevel-1]: the parallel for runs to the end
\* of the stack.
WorkersOfToEnd(l) ==
  [t \in Threads |->
     IF l < nlevel - 1 /\ t < TeamOf(l)
     THEN [si  |-> levels[l] + ChunkLo(levels[nlevel - 1] - levels[l], TeamOf(l), t),
           end |-> levels[l] + ChunkHi(levels[nlevel - 1] - levels[l], TeamOf(l), t)]
     ELSE IdleWorker]

\* The workers at the start of the parallel for over level l: worker t of the
\* team runs its block of the static schedule, si = first .. end-1.
WorkersOf(l) ==
  [t \in Threads |->
     IF l < nlevel - 1 /\ t < TeamOf(l)
     THEN [si  |-> levels[l] + ChunkLo(levels[l + 1] - levels[l], TeamOf(l), t),
           end |-> levels[l] + ChunkHi(levels[l + 1] - levels[l], TeamOf(l), t)]
     ELSE IdleWorker]

\* FastScape_RBP::Erode is entered: li = 1.
ErodeEnterP ==
  /\ pc = "Erode"
  /\ variant = "P"
  /\ pc' = "ErodeP"
  /\ li' = 1
  /\ wk' = WorkersOf(1)
  /\ nwrite' = [c \in Cells |-> 0]
  /\ UNCHANGED << h, accum, rec, donor, ndon, stack, levels, nlevel, nstack, step, si,
                  pqvars, hstep >>

\* Worker t runs the loop body for stack[si]: a cell without receiver is
\* skipped, otherwise h[c] and h[n] are read and h[c] is stored.  The workers
\* of a team take their iterations in any order relative to each other.
ErodeCellP(t) ==
  /\ pc = "ErodeP"
  /\ wk[t].si < wk[t].end
  /\ LET c == stack[wk[t].si]
     IN  IF rec[c] = NO_FLOW
         THEN UNCHANGED << h, nwrite >>
         ELSE /\ h' = [h EXCEPT ![c] = ErodeValue(h, accum, rec, c)]
              /\ nwrite' = [nwrite EXCEPT ![c] = @ + 1]
  /\ wk' = [wk EXCEPT ![t].si = @ + 1]
  /\ UNCHANGED << accum, rec, donor, ndon, stack, levels, nlevel, nstack, pc, step,
                  li, si, pqvars, hstep >>

\* Every worker of the parallel for has finished its block.
WorkersDone == \A t \in Threads : wk[t].si >= wk[t].end

\* The parallel for of level li is over: li++.
ErodeNextLevelP ==
  /\ pc = "ErodeP"
  /\ li < nlevel - 1
  /\ WorkersDone
  /\ li' = li + 1
  /\ wk' = WorkersOf(li + 1)
  /\ UNCHANGED << h, accum, rec, donor, ndon, stack, levels, nlevel, nstack, pc, step,
                  si, nwrite, pqvars, hstep >>

\* ErodeReturnP with the loop condition step<nstep.
ErodeReturnPShort ==
  /\ pc = "ErodeP"
  /\ li >= nlevel - 1
  /\ step' = step + 1
  /\ pc' = IF step + 1 < nstep THEN "ComputeReceivers" ELSE "Done"
  /\ UNCHANGED << h, accum, rec, donor, ndon, stack, levels, nlevel, nstack, li, si,
                  nwrite, pqvars, wk, hstep >>

\* Erode returns; for(step=0;step<=nstep;step++) of FastScape_RBP::run.
ErodeReturnP ==
  /\ pc = "ErodeP"
  /\ li >= nlevel - 1
  /\ step' = step + 1
  /\ pc' = IF step + 1 <= nstep THEN "ComputeReceivers" ELSE "Done"
  /\ UNCHANGED << h, accum, rec, donor, ndon, stack, levels, nlevel, nstack, li, si,
                  nwrite, pqvars, wk, hstep >>

\* ------------------------------------------------------------ the run
\* State after the allocations and initialisations of run(), before the first
\* step, for a grid and a terrain already chosen.
\* The position of a thread where the team runs each stage as a whole.
StageWise == [at |-> "Team", step |-> 0]

InitRun ==
  /\ accum = [c \in Cells |-> Uninit]
  /\ rec = [c \in Cells |-> NO_FLOW]
  /\ ndon = [c \in Cells |-> 0]
  /\ donor = [i \in 0 .. (8 * size - 1) |-> Uninit]
  /\ stack = [i \in 0 .. (stack_width - 1) |-> Uninit]
  /\ levels = [i \in 0 .. (level_width - 1) |-> Uninit]
  /\ nlevel = 0
  /\ nstack = 0
  /\ pc = "ComputeReceivers"
  /\ step = 0
  /\ li = 0
  /\ si = 0
  /\ nwrite = [c \in Cells |-> 0]
  /\ tstack = [t \in Threads |-> << >>]
  /\ tlevels = [t \in Threads |-> << >>]
  /\ tnlevel = [t \in Threads |-> 0]
  /\ wk = [t \in Threads |-> IdleWorker]
  /\ hstep = h
  /\ tpc = [t \in Threads |-> StageWise]
  /\ graph_mask = [c \in Cells |-> FALSE]
  /\ graph_updating_mask = [c \in Cells |-> FALSE]
  /\ graph_visited = [c \in Cells |-> FALSE]
  /\ keep_going = 0
  /\ nfront = [c \in Cells |-> 0]
  /\ gstack = << >>
  /\ gout = << >>
  /\ thrown = ""

\* State after the constructor, the terrain generation and the allocations
\* and initialisations of run(), before the first step.
Init ==
  /\ width = Dimension
  /\ height = Dimension
  /\ \/ /\ variant = "GPU"
        /\ nthreads = 1
        /\ nstep \in {0, MaxNstep}
        /\ \E seed \in 0 .. MaxSeed : h = GenerateRandomTerrain(seed)
     \/ /\ variant = "PQ"
        /\ nthreads \in 1 .. MaxThreads
        /\ nstep = MaxNstep
        /\ \E seed \in 0 .. MaxSeed : h = GenerateRandomTerrain(seed)
     \/ /\ variant = "P"
        /\ nthreads \in 1 .. MaxThreads
        /\ nstep \in {0, MaxNstep}
        /\ \/ \E seed \in 0 .. MaxSeedP : h = GenerateRandomTerrain(seed)
           \/ h = [c \in Cells |-> 0]
  /\ InitRun

Next ==
  \/ ComputeReceivers
  \/ ComputeDonors
  \/ GenerateOrder
  \/ ComputeFlowAcc
  \/ AddUplift
  \/ ErodeEnter
  \/ ErodeCell
  \/ ErodeNextLevel
  \/ ErodeReturn
  \/ GenerateOrderPQ
  \/ ComputeFlowAccPQ
  \/ AddUpliftPQ
  \/ ErodePQ
  \/ ComputeDonorsP
  \/ GenerateOrderP
  \/ ComputeFlowAccP
  \/ AddUpliftP
  \/ ErodeEnterP
  \/ \E t \in Threads : ErodeCellP(t)
  \/ ErodeNextLevelP
  \/ ErodeReturnP

Spec == Init /\ [][Next]_vars

\* ------------------------------------------------------- scenario terrains
\* FastScape_RBGPU run on three terrains set by the caller in place of
\* GenerateRandomTerrain: a flat 5x5 grid, a 7x7 grid with one cell of
\* elevation 1 at (3,3), and a 10x10 grid with h[y,x] = x.
InitScenario ==
  /\ variant = "GPU"
  /\ nthreads = 1
  /\ nstep = MaxNstep
  /\ \/ /\ width = 5
        /\ height = 5
        /\ h = [c \in Cells |-> 0]
     \/ /\ width = 7
        /\ height = 7
        /\ h = [c \in Cells |-> IF c = 3 * width + 3 THEN Scale ELSE 0]
     \/ /\ width = 10
        /\ height = 10
        /\ h = [c \in Cells |-> X(c) * Scale]
  /\ InitRun

\* The stages of FastScape_RBGPU::run.
NextGPU ==
  \/ ComputeReceivers
  \/ ComputeDonors
  \/ GenerateOrder
  \/ ComputeFlowAcc
  \/ AddUplift
  \/ ErodeEnter
  \/ ErodeCell
  \/ ErodeNextLevel
  \/ ErodeReturn

SpecScenario == InitScenario /\ [][NextGPU]_vars

\* ------------------------------------ FastScape_RBPQ::run, thread by thread
\* The body of the parallel region of run() as each thread of the team runs
\* it.  A thread is at one of:
\*   "R"   ComputeReceivers, an omp for;      "B1" the barrier at its end
\*   "D"   ComputeDonors, an omp for nowait
\*   "S"   GenerateOrder up to the end of the omp for over the interior;
\*         "B2" the barrier at the end of that loop
\*   "B3"  #pragma omp barrier of GenerateOrder
\*   "W"   the while loop of GenerateOrder
\*   "F"   ComputeFlowAcc,  "U" AddUplift,  "E" Erode
\*   "B4"  #pragma omp barrier at the end of the loop body of run()
\*   "End" the end of the parallel region
Stages == << "R", "B1", "D", "S", "B2", "B3", "W", "F", "U", "E", "B4" >>

StageIdx(a) == CHOOSE i \in 1 .. Len(Stages) : Stages[i] = a

\* How far thread t has come: the stages of the steps before, then the stage
\* it is at.
Progress(t) ==
  IF tpc[t].at = "End" THEN (nstep + 1) * Len(Stages) + 1
  ELSE tpc[t].step * Len(Stages) + StageIdx(tpc[t].at)

\* A barrier lets thread t go when every thread of the team has reached it.
BarrierOpen(t) == \A u \in Threads : Progress(u) >= Progress(t)

\* The cells of iterations [i, hi) of the collapsed y,x loop over the interior.
PQInteriorChunk(i, hi) ==
  {(2 + (k \div (width - 4))) * width + (2 + (k % (width - 4))) : k \in i .. (hi - 1)}

\* The cells of iterations [i, hi) of the collapsed y,x loop over the frame.
PQFrameChunk(i, hi) ==
  {(1 + (k \div (width - 2))) * width + (1 + (k % (width - 2))) : k \in i .. (hi - 1)}

\* The shares of thread t of the two loops.  No schedule is named for the loop
\* of ComputeReceivers; the shares are those of schedule(static).
ReceiverShare(t) ==
  LET n == (height - 4) * (width - 4)
  IN  PQInteriorChunk(ChunkLo(n, nthreads, t), ChunkHi(n, nthreads, t))

DonorShare(t) ==
  LET n == (height - 2) * (width - 2)
  IN  PQFrameChunk(ChunkLo(n, nthreads, t), ChunkHi(n, nthreads, t))

\* ThreadReceivers with nowait on the loop: the thread goes on to
\* ComputeDonors without waiting for the team.
ThreadReceiversNowait(t) ==
  /\ pc = "Parallel"
  /\ tpc[t].at = "R"
  /\ rec' = [c \in Cells |-> IF c \in ReceiverShare(t) THEN ReceiverOf(h, c) ELSE rec[c]]
  /\ hstep' = h
  /\ tpc' = [tpc EXCEPT ![t].at = "D"]
  /\ UNCHANGED << h, accum, donor, ndon, stack, levels, nlevel, nstack, pc, step, li, si,
                  nwrite, teamvars, graphvars, gangvars, wk >>

\* Thread t runs its share of the loop of ComputeReceivers and arrives at the
\* barrier at the end of the loop.
ThreadReceivers(t) ==
  /\ pc = "Parallel"
  /\ tpc[t].at = "R"
  /\ rec' = [c \in Cells |-> IF c \in ReceiverShare(t) THEN ReceiverOf(h, c) ELSE rec[c]]
  /\ hstep' = h
  /\ tpc' = [tpc EXCEPT ![t].at = "B1"]
  /\ UNCHANGED << h, accum, donor, ndon, stack, levels, nlevel, nstack, pc, step, li, si,
                  nwrite, teamvars, graphvars, gangvars, wk >>

\* Thread t runs its share of the loop of ComputeDonors; nowait: it goes on
\* to GenerateOrder.
ThreadDonors(t) ==
  /\ pc = "Parallel"
  /\ tpc[t].at = "D"
  /\ ndon' = [c \in Cells |-> IF c \in DonorShare(t) THEN Len(DonorScan(rec, c, 0))
                              ELSE ndon[c]]
  /\ donor' = [i \in 0 .. (8 * size - 1) |->
                 LET c == i \div 8
                     k == i % 8
                 IN  IF c \in DonorShare(t) /\ k < Len(DonorScan(rec, c, 0))
                     THEN DonorScan(rec, c, 0)[k + 1]
                     ELSE donor[i]]
  /\ tpc' = [tpc EXCEPT ![t].at = "S"]
  /\ UNCHANGED << h, accum, rec, stack, levels, nlevel, nstack, pc, step, li, si,
                  nwrite, teamvars, graphvars, gangvars, wk, hstep >>

\* GenerateOrder of thread t up to the barriers: its edge cells (two loops
\* with nowait), then its share of the interior cells without a receiver.
ThreadSeeds(t) ==
  /\ pc = "Parallel"
  /\ tpc[t].at = "S"
  /\ LET T     == nthreads
         edge  == PQEdgeRows(ChunkLo(height - 2, T, t), ChunkHi(height - 2, T, t))
                    \o PQEdgeCols(ChunkLo(width - 4, T, t), ChunkHi(width - 4, T, t))
         n3    == (height - 4) * (width - 4)
         seeds == edge \o PQInteriorSinks(rec, ChunkLo(n3, T, t), ChunkHi(n3, T, t))
     IN  /\ tstack' = [tstack EXCEPT ![t] = seeds]
         /\ tlevels' = [tlevels EXCEPT ![t] = << 0, Len(edge), Len(seeds) >>]
         /\ tnlevel' = [tnlevel EXCEPT ![t] = 3]
  /\ tpc' = [tpc EXCEPT ![t].at = "B2"]
  /\ UNCHANGED << h, accum, rec, donor, ndon, stack, levels, nlevel, nstack, pc, step, li,
                  si, nwrite, width, height, nstep, variant, nthreads, wk, hstep,
                  graphvars, gangvars >>

\* The while loop of GenerateOrder of thread t and the two assertions.
ThreadOrder(t) ==
  /\ pc = "Parallel"
  /\ tpc[t].at = "W"
  /\ LET res == OrderLoop(ndon, donor, tstack[t], tlevels[t], -1, 0,
                          pq_stack_width(nthreads) - 1)
     IN  IF /\ Len(res.stk) < pq_stack_width(nthreads)
            /\ res.lv[Len(res.lv) - 1] = Len(res.stk)
         THEN /\ tstack' = [tstack EXCEPT ![t] = res.stk]
              /\ tlevels' = [tlevels EXCEPT ![t] = res.lv]
              /\ tnlevel' = [tnlevel EXCEPT ![t] = Len(res.lv) - 1]
              /\ tpc' = [tpc EXCEPT ![t].at = "F"]
              /\ pc' = pc
         ELSE /\ pc' = "Abort"
              /\ UNCHANGED << tstack, tlevels, tnlevel, tpc >>
  /\ UNCHANGED << h, accum, rec, donor, ndon, stack, levels, nlevel, nstack, step, li, si,
                  nwrite, width, height, nstep, variant, nthreads, wk, hstep, graphvars, gangvars >>

\* ComputeFlowAcc of thread t.
ThreadFlowAcc(t) ==
  /\ pc = "Parallel"
  /\ tpc[t].at = "F"
  /\ accum' = PQPullLevels(PQFillArea(accum, tstack[t], At(tlevels[t], 0),
                                      At(tlevels[t], tnlevel[t] - 1)),
                           tstack[t], tlevels[t], tnlevel[t] - 3)
  /\ tpc' = [tpc EXCEPT ![t].at = "U"]
  /\ UNCHANGED << h, rec, donor, ndon, stack, levels, nlevel, nstack, pc, step, li, si,
                  nwrite, teamvars, graphvars, gangvars, wk, hstep >>

\* AddUplift of thread t.
ThreadUplift(t) ==
  /\ pc = "Parallel"
  /\ tpc[t].at = "U"
  /\ h' = PQUpliftCells(h, tstack[t], At(tlevels[t], 1), At(tlevels[t], tnlevel[t] - 1))
  /\ tpc' = [tpc EXCEPT ![t].at = "E"]
  /\ UNCHANGED << accum, rec, donor, ndon, stack, levels, nlevel, nstack, pc, step, li, si,
                  nwrite, teamvars, graphvars, gangvars, wk, hstep >>

\* Erode of thread t; the thread arrives at the barrier that ends the step.
ThreadErode(t) ==
  /\ pc = "Parallel"
  /\ tpc[t].at = "E"
  /\ h' = PQErodeLevels(h, tstack[t], tlevels[t], 2, tnlevel[t])
  /\ tpc' = [tpc EXCEPT ![t].at = "B4"]
  /\ UNCHANGED << accum, rec, donor, ndon, stack, levels, nlevel, nstack, pc, step, li, si,
                  nwrite, teamvars, graphvars, gangvars, wk, hstep >>

\* Thread t leaves a barrier that the whole team has reached.  From the
\* barrier that ends step s it goes to step s+1 if s+1 <= nstep and to the end
\* of the parallel region otherwise.
ThreadBarrier(t) ==
  /\ pc = "Parallel"
  /\ tpc[t].at \in {"B1", "B2", "B3", "B4"}
  /\ BarrierOpen(t)
  /\ tpc' = [tpc EXCEPT ![t] =
               CASE tpc[t].at = "B1" -> [at |-> "D", step |-> tpc[t].step]
                 [] tpc[t].at = "B2" -> [at |-> "B3", step |-> tpc[t].step]
                 [] tpc[t].at = "B3" -> [at |-> "W", step |-> tpc[t].step]
                 [] tpc[t].at = "B4" ->
                      IF tpc[t].step + 1 <= nstep
                      THEN [at |-> "R", step |-> tpc[t].step + 1]
                      ELSE [at |-> "End", step |-> tpc[t].step + 1]]
  /\ UNCHANGED << h, accum, rec, donor, ndon, stack, levels, nlevel, nstack, pc, step, li,
                  si, nwrite, teamvars, graphvars, gangvars, wk, hstep >>

\* The end of the parallel region: run() returns.
RegionEnd ==
  /\ pc = "Parallel"
  /\ \A t \in Threads : tpc[t].at = "End"
  /\ pc' = "Done"
  /\ step' = nstep + 1
  /\ UNCHANGED << h, accum, rec, donor, ndon, stack, levels, nlevel, nstack, li, si,
                  nwrite, teamvars, graphvars, gangvars, wk, hstep, tpc >>

\* The team of FastScape_RBPQ::run enters the parallel region.
InitThreads ==
  /\ width = Dimension
  /\ height = Dimension
  /\ variant = "PQ"
  /\ nthreads \in 1 .. MaxThreads
  /\ nstep \in {0, MaxNstep}
  /\ \E seed \in 0 .. MaxSeedT : h = GenerateRandomTerrain(seed)
  /\ accum = [c \in Cells |-> Uninit]
  /\ rec = [c \in Cells |-> NO_FLOW]
  /\ ndon = [c \in Cells |-> 0]
  /\ donor = [i \in 0 .. (8 * size - 1) |-> Uninit]
  /\ stack = [i \in 0 .. (stack_width - 1) |-> Uninit]
  /\ levels = [i \in 0 .. (level_width - 1) |-> Uninit]
  /\ nlevel = 0
  /\ nstack = 0
  /\ pc = "Parallel"
  /\ step = 0
  /\ li = 0
  /\ si = 0
  /\ nwrite = [c \in Cells |-> 0]
  /\ tstack = [t \in Threads |-> << >>]
  /\ tlevels = [t \in Threads |-> << >>]
  /\ tnlevel = [t \in Threads |-> 0]
  /\ wk = [t \in Threads |-> IdleWorker]
  /\ hstep = h
  /\ tpc = [t \in Threads |-> [at |-> "R", step |-> 0]]
  /\ graph_mask = [c \in Cells |-> FALSE]
  /\ graph_updating_mask = [c \in Cells |-> FALSE]
  /\ graph_visited = [c \in Cells |-> FALSE]
  /\ keep_going = 0
  /\ nfront = [c \in Cells |-> 0]
  /\ gstack = << >>
  /\ gout = << >>
  /\ thrown = ""

NextThreads ==
  \/ \E t \in Threads : ThreadReceivers(t)
  \/ \E t \in Threads : ThreadDonors(t)
  \/ \E t \in Threads : ThreadSeeds(t)
  \/ \E t \in Threads : ThreadOrder(t)
  \/ \E t \in Threads : ThreadFlowAcc(t)
  \/ \E t \in Threads : ThreadUplift(t)
  \/ \E t \in Threads : ThreadErode(t)
  \/ \E t \in Threads : ThreadBarrier(t)
  \/ RegionEnd

SpecThreads == InitThreads /\ [][NextThreads]_vars

\* ------------------------------------------ FastScape_RBGPUgraph (frontier)
\* ComputeReceivers, ComputeDonors and AddUplift are the code of
\* FastScape_RBGPU.  run() calls no GenerateOrder: ComputeFlowAcc and Erode
\* walk the graph with a frontier of cells, graph_mask.
ComputeDonorsGraph ==
  /\ pc = "ComputeDonors"
  /\ variant = "Graph"
  /\ ndon' = DonorsCount(rec, ndon)
  /\ donor' = DonorsFill(rec, donor)
  /\ pc' = "ComputeFlowAcc"
  /\ UNCHANGED << h, accum, rec, stack, levels, nlevel, nstack, step, li, si, nwrite,
                  pqvars, wk, hstep >>

NoMask == [c \in Cells |-> FALSE]

\* The cells on the frontier.
Frontier == {c \in Cells : graph_mask[c]}

\* The three loops before the while loop of ComputeFlowAcc: the masks are
\* reset, accum[c] = cell_area, and the frame cells with ndon[c]==0 are put
\* on the frontier.
FlowAccSeed ==
  /\ pc = "ComputeFlowAcc"
  /\ variant = "Graph"
  /\ graph_updating_mask' = NoMask
  /\ graph_mask' = [c \in Cells |-> Frame(c) /\ ndon[c] = 0]
  /\ graph_visited' = [c \in Cells |-> Frame(c) /\ ndon[c] = 0]
  /\ nfront' = [c \in Cells |-> IF Frame(c) /\ ndon[c] = 0 THEN 1 ELSE 0]
  /\ accum' = [c \in Cells |-> cell_area]
  /\ keep_going' = 1
  /\ pc' = "FlowAccWhile"
  /\ UNCHANGED << h, rec, donor, ndon, stack, levels, nlevel, nstack, step, li, si, nwrite,
                  teamvars, tpc, gangvars, wk, hstep >>

\* The frontier cells with donors whose receiver is on the frontier too: the
\* iteration of the receiver reads accum[n] while the iteration of n adds to
\* it, in a loop marked independent.
Racing ==
  {n \in Frontier : /\ ndon[n] > 0
                    /\ rec[n] # NO_FLOW
                    /\ RecCell(rec, n) \in Frontier}

\* accum[c] of a frontier cell after the first k additions of
\*   for(k=0;k<ndon[c];k++) accum[c] += accum[donor[8*c+k]];
\* A donor n in Racing is read when j[n] of its own additions are done.
RECURSIVE PulledAcc(_, _, _, _)
PulledAcc(acc, j, c, k) ==
  IF k = 0 THEN acc[c]
  ELSE LET n == donor[8 * c + (k - 1)]
       IN  PulledAcc(acc, j, c, k - 1)
             + (IF n \in DOMAIN j THEN PulledAcc(acc, j, n, j[n]) ELSE acc[n])

\* The cells the frontier cells put into graph_updating_mask in ComputeFlowAcc.
MarkedReceivers == {RecCell(rec, c) : c \in {d \in Frontier : rec[d] # NO_FLOW}}

\* One iteration of the while loop of ComputeFlowAcc: every frontier cell
\* leaves the frontier, adds the accum of its donors to its own and marks its
\* receiver; then the marked cells become the frontier.
FlowAccRound ==
  /\ pc = "FlowAccWhile"
  /\ keep_going > 0
  /\ \E j \in [Racing -> 0 .. 8] :
       /\ \A n \in Racing : j[n] <= ndon[n]
       /\ accum' = [c \in Cells |->
                      IF c \in Frontier THEN PulledAcc(accum, j, c, ndon[c])
                      ELSE accum[c]]
  /\ graph_mask' = [c \in Cells |-> c \in MarkedReceivers]
  /\ graph_visited' = [c \in Cells |-> graph_visited[c] \/ c \in MarkedReceivers]
  /\ nfront' = [c \in Cells |-> IF c \in MarkedReceivers THEN nfront[c] + 1 ELSE nfront[c]]
  /\ graph_updating_mask' = NoMask
  /\ keep_going' = IF MarkedReceivers # {} THEN 1 ELSE 0
  /\ UNCHANGED << h, rec, donor, ndon, stack, levels, nlevel, nstack, pc, step, li, si,
                  nwrite, teamvars, tpc, gangvars, wk, hstep >>

\* while(keep_going) is left.
FlowAccReturn ==
  /\ pc = "FlowAccWhile"
  /\ keep_going = 0
  /\ pc' = "AddUplift"
  /\ UNCHANGED << h, accum, rec, donor, ndon, stack, levels, nlevel, nstack, step, li, si,
                  nwrite, pqvars, graphvars, wk, hstep >>

AddUpliftGraph ==
  /\ pc = "AddUplift"
  /\ variant = "Graph"
  /\ h' = [c \in Cells |-> IF Interior(c) THEN h[c] + UpliftUnits ELSE h[c]]
  /\ pc' = "Erode"
  /\ UNCHANGED << accum, rec, donor, ndon, stack, levels, nlevel, nstack, step, li, si,
                  nwrite, pqvars, graphvars, wk, hstep >>

\* The two loops before the while loop of Erode: the masks are reset and the
\* frame cells with rec[c]==NO_FLOW are put on the frontier.
ErodeSeed ==
  /\ pc = "Erode"
  /\ variant = "Graph"
  /\ graph_updating_mask' = NoMask
  /\ graph_mask' = [c \in Cells |-> Frame(c) /\ rec[c] = NO_FLOW]
  /\ graph_visited' = [c \in Cells |-> Frame(c) /\ rec[c] = NO_FLOW]
  /\ nfront' = [c \in Cells |-> IF Frame(c) /\ rec[c] = NO_FLOW THEN 1 ELSE 0]
  /\ nwrite' = [c \in Cells |-> 0]
  /\ keep_going' = 1
  /\ li' = 0
  /\ pc' = "ErodeWhile"
  /\ UNCHANGED << h, accum, rec, donor, ndon, stack, levels, nlevel, nstack, step, si,
                  teamvars, tpc, gangvars, wk, hstep >>

\* The cells the frontier cells put into graph_updating_mask in Erode.
MarkedDonors == UNION {{donor[8 * c + k] : k \in 0 .. (ndon[c] - 1)} : c \in Frontier}

\* ErodeRound without graph_mask[c] = false: the cells stay on the frontier.
ErodeRoundKeepsMask ==
  /\ pc = "ErodeWhile"
  /\ keep_going > 0
  /\ h' = [c \in Cells |-> IF c \in Frontier /\ rec[c] # NO_FLOW
                           THEN ErodeValue(h, accum, rec, c) ELSE h[c]]
  /\ nwrite' = [c \in Cells |-> IF c \in Frontier /\ rec[c] # NO_FLOW
                                THEN nwrite[c] + 1 ELSE nwrite[c]]
  /\ graph_mask' = [c \in Cells |-> graph_mask[c] \/ c \in MarkedDonors]
  /\ graph_visited' = [c \in Cells |-> graph_visited[c] \/ c \in MarkedDonors]
  /\ nfront' = [c \in Cells |-> IF c \in MarkedDonors THEN nfront[c] + 1 ELSE nfront[c]]
  /\ graph_updating_mask' = NoMask
  /\ keep_going' = Cardinality(MarkedDonors)
  /\ li' = li + 1
  /\ UNCHANGED << accum, rec, donor, ndon, stack, levels, nlevel, nstack, pc, step, si,
                  teamvars, tpc, gangvars, wk, hstep >>

\* One iteration of the while loop of Erode, round li: every frontier cell
\* leaves the frontier, is eroded against its receiver if it has one, and
\* marks its donors; then the marked cells become the frontier and
\* keep_going is their number.
ErodeRound ==
  /\ pc = "ErodeWhile"
  /\ keep_going > 0
  /\ h' = [c \in Cells |-> IF c \in Frontier /\ rec[c] # NO_FLOW
                           THEN ErodeValue(h, accum, rec, c) ELSE h[c]]
  /\ nwrite' = [c \in Cells |-> IF c \in Frontier /\ rec[c] # NO_FLOW
                                THEN nwrite[c] + 1 ELSE nwrite[c]]
  /\ graph_mask' = [c \in Cells |-> c \in MarkedDonors]
  /\ graph_visited' = [c \in Cells |-> graph_visited[c] \/ c \in MarkedDonors]
  /\ nfront' = [c \in Cells |-> IF c \in MarkedDonors THEN nfront[c] + 1 ELSE nfront[c]]
  /\ graph_updating_mask' = NoMask
  /\ keep_going' = Cardinality(MarkedDonors)
  /\ li' = li + 1
  /\ UNCHANGED << accum, rec, donor, ndon, stack, levels, nlevel, nstack, pc, step, si,
                  teamvars, tpc, gangvars, wk, hstep >>

\* while(keep_going>0) is left: Erode returns and the loop of run() goes on.
ErodeReturnGraph ==
  /\ pc = "ErodeWhile"
  /\ keep_going = 0
  /\ step' = step + 1
  /\ pc' = IF step + 1 <= nstep THEN "ComputeReceivers" ELSE "Done"
  /\ UNCHANGED << h, accum, rec, donor, ndon, stack, levels, nlevel, nstack, li, si,
                  nwrite, pqvars, graphvars, wk, hstep >>

\* State of FastScape_RBGPUgraph before the first step of run().
InitGraph ==
  /\ width = DimensionG
  /\ height = DimensionG
  /\ variant = "Graph"
  /\ nthreads = 1
  /\ nstep \in {0, MaxNstep}
  /\ \E seed \in 0 .. MaxSeedG : h = GenerateRandomTerrain(seed)
  /\ InitRun

NextGraph ==
  \/ ComputeReceivers
  \/ ComputeDonorsGraph
  \/ FlowAccSeed
  \/ FlowAccRound
  \/ FlowAccReturn
  \/ AddUpliftGraph
  \/ ErodeSeed
  \/ ErodeRound
  \/ ErodeReturnGraph

SpecGraph == InitGraph /\ [][NextGraph]_vars

\* The stages of NextGraph other than the round of Erode.
StagesGraph ==
  \/ ComputeReceivers
  \/ ComputeDonorsGraph
  \/ FlowAccSeed
  \/ FlowAccRound
  \/ FlowAccReturn
  \/ AddUpliftGraph
  \/ ErodeSeed
  \/ ErodeReturnGraph

\* The steps of ErodeRound, told by the guard and the round counter.
ErodeRoundTaken == pc = "ErodeWhile" /\ keep_going > 0 /\ li' = li + 1

\* run() is a sequential program that is not stopped: a stage that can run
\* does run.
SpecGraphFair == SpecGraph /\ WF_vars(StagesGraph) /\ WF_li(ErodeRoundTaken)

\* ------------------------------ FastScape_RBGPU of fastscape_RB+GPU-gang-indep
\* GenerateOrder run by gangs = 20 gangs, each of which runs the whole of the
\* two parallel regions with its own part of stack: gang g starts writing at
\* stack[g*g_stack_width].
gangs == 20

Gangs == 0 .. (gangs - 1)

\* stack_width = level_width = 3*size; g_stack_width = stack_width/gangs.
g_stack_width == (3 * size) \div gangs

g_level_width == (3 * size) \div gangs

\* The frame cells with rec[c]==NO_FLOW, in the order of the y,x loops.
GangSinks == SelectSeq(FrameCells, LAMBDA c : rec[c] = NO_FLOW)

\* What a read of an int that nothing has written can return: a value that
\* passes the tests of GenerateOrder and one that does not.
Garbage == {0, 3 * size + 1}

\* The first parallel region: every gang g writes the sinks to stack from
\* g*g_stack_width on, sets nstack[g] to the index behind the last one and
\* leaves 2 in nlevel[g*g_level_width].  Where the parts of the gangs overlap
\* the writes race: gstack[p] is the set of values they can leave in
\* stack[p], empty if no gang writes it.
GangSeeds ==
  /\ pc = "GenerateOrder"
  /\ variant = "Gang"
  /\ gstack' = [p \in 0 .. (3 * size - 1) |->
                  {GangSinks[p - g * g_stack_width + 1] :
                     g \in {gg \in Gangs : /\ gg * g_stack_width <= p
                                           /\ p < gg * g_stack_width + Len(GangSinks)}}]
  /\ gout' = [g \in Gangs |-> {[n |-> Len(GangSinks), l |-> 2]}]
  /\ pc' = "GenerateOrderLoop"
  /\ UNCHANGED << h, accum, rec, donor, ndon, stack, levels, nlevel, nstack, step, li, si,
                  nwrite, teamvars, tpc, graphvars, wk, hstep, thrown >>

\* The numbers of entries that the scan of stack[p], p in lo..hi-1, can
\* append: ndon[c] for each c read; a position that no gang wrote holds no
\* cell of the grid and 0..GarbageDonors entries are appended for it.
RECURSIVE ScanAppends(_, _)
ScanAppends(lo, hi) ==
  IF lo >= hi THEN {0}
  ELSE LET here == IF gstack[lo] = {} THEN 0 .. GarbageDonors
                   ELSE {ndon[c] : c \in gstack[lo]}
       IN  {a + b : a \in here, b \in ScanAppends(lo + 1, hi)}

\* my_nlevel of a gang after the while loop and my_nlevel--, when it started
\* with mystack = top entries and the first scan appended a entries, which
\* have no donors themselves: the loop runs once if top = 0, twice if
\* a = 0, three times otherwise.
LevelsAfter(top, a) == IF top = 0 THEN 2 ELSE IF a = 0 THEN 3 ELSE 4

\* The second parallel region: gang g scans stack from 0 to its mystack and
\* appends the donors behind its own entries.  gout[g] holds, for every
\* outcome of the reads, the number n of entries the gang has appended to its
\* part of stack and its nlevel l.
GangOrder ==
  /\ pc = "GenerateOrderLoop"
  /\ gout' = [g \in Gangs |->
                LET top == g * g_stack_width + Len(GangSinks)
                IN  {[n |-> Len(GangSinks) + a, l |-> LevelsAfter(top, a)] :
                       a \in ScanAppends(0, top)}]
  /\ li' = 0
  /\ pc' = "GenerateOrderCheck"
  /\ UNCHANGED << h, accum, rec, donor, ndon, stack, levels, nlevel, nstack, step, si,
                  nwrite, teamvars, tpc, graphvars, wk, hstep, gstack, thrown >>

\* The values nlevel[i] can hold when gang w has outcome o: gang w left its
\* nlevel in nlevel[w*g_level_width]; an entry that no gang wrote is garbage.
\* nlevel has gangs entries: a gang with w*g_level_width >= gangs writes
\* behind its end, and those writes are taken to leave the entries alone.
NlevelRead(i, w, o) ==
  IF g_level_width > 0 /\ i % g_level_width = 0 /\ i \div g_level_width = w
  THEN {o.l}
  ELSE IF g_level_width > 0 /\ i % g_level_width = 0 /\ (i \div g_level_width) \in Gangs
  THEN {o2.l : o2 \in gout[i \div g_level_width]}
  ELSE Garbage

\* One iteration of for(int i=0;i<gangs;i++): nstack[i], the index behind the
\* last entry of gang i, and nlevel[i] are compared with g_stack_width.
GangCheck ==
  /\ pc = "GenerateOrderCheck"
  /\ \E o \in gout[li] : \E lv \in NlevelRead(li, li, o) :
       /\ gout' = [gout EXCEPT ![li] = {o}]
       /\ IF li * g_stack_width + o.n > g_stack_width
          THEN /\ thrown' = "Stack width exceeded bounds!"
               /\ pc' = "Thrown"
               /\ li' = li
          ELSE IF lv > g_stack_width
          THEN /\ thrown' = "Level width exceeded bounds!"
               /\ pc' = "Thrown"
               /\ li' = li
          ELSE /\ thrown' = thrown
               /\ li' = li + 1
               /\ pc' = IF li + 1 < gangs THEN pc ELSE "ComputeFlowAcc"
  /\ UNCHANGED << h, accum, rec, donor, ndon, stack, levels, nlevel, nstack, step, si,
                  nwrite, teamvars, tpc, graphvars, wk, hstep, gstack >>

\* The grids of the gang runs: two or three columns, so that no cell has a
\* receiver, and at least as many cells as a third of the gangs, so that
\* g_stack_width > 0.  The constructor draws the terrain.
InitGang ==
  /\ width \in 2 .. 3
  /\ height \in 3 .. MaxGangHeight
  /\ 3 * size >= gangs
  /\ variant = "Gang"
  /\ nthreads = 1
  /\ nstep \in {0, MaxNstep}
  /\ \E seed \in 0 .. MaxSeedGang : h = GenerateRandomTerrain(seed)
  /\ InitRun

\* run() up to the end of GenerateOrder of the first step.
NextGang ==
  \/ ComputeReceivers
  \/ ComputeDonors
  \/ GangSeeds
  \/ GangOrder
  \/ GangCheck

SpecGang == InitGang /\ [][NextGang]_vars
\* =================================================================== claims
\* Following receiver links from a leads to b in at most k hops (a itself counts).
RECURSIVE ReachesIn(_, _, _)
ReachesIn(a, b, k) ==
  \/ a = b
  \/ k > 0 /\ rec[a] # NO_FLOW /\ ReachesIn(RecCell(rec, a), b, k - 1)

Reaches(a, b) == ReachesIn(a, b, size)

\* The cells whose receiver is c, read off rec alone.
DonorSet(c) == {n \in Cells : rec[n] # NO_FLOW /\ RecCell(rec, n) = c}

\* Positions of stack in use.
StackPos == 0 .. (nstack - 1)

\* GenerateOrder of FastScape_RBGPU has run in this step and rec, donor, stack
\* and levels are still the ones it read and wrote.
OrderedGPU == variant = "GPU" /\ pc \in {"ComputeFlowAcc", "AddUplift", "Erode", "ErodeLoop"}

\* C1: after the serial GenerateOrder, stack[0..nstack) holds every cell of the
\* frame exactly once and no cell of the outermost halo, and every donor of the
\* cell at position i is at a position j > i.
C1_StackIsTopologicalOrder ==
  OrderedGPU =>
    /\ \A c \in Cells : Frame(c) => Cardinality({i \in StackPos : stack[i] = c}) = 1
    /\ \A i \in StackPos : stack[i] \in Cells /\ ~Halo(stack[i])
    /\ \A i \in StackPos : \A n \in DonorSet(stack[i]) :
         \E j \in StackPos : j > i /\ stack[j] = n

\* A stack in which some cell drains through a second cell that is no sink.
C1_Witness ==
  /\ OrderedGPU
  /\ step = 1
  /\ nstack = (width - 2) * (height - 2)
  /\ \E c \in Cells : rec[c] # NO_FLOW /\ rec[RecCell(rec, c)] # NO_FLOW

\* C2: after GenerateOrder, no two cells of one level are related by receiver
\* links, for every level k with 0 <= k < nlevel-1.
C2_LevelsIndependent ==
  OrderedGPU =>
    \A k \in 0 .. (nlevel - 2) :
      \A i, j \in levels[k] .. (levels[k + 1] - 1) :
        i # j => ~Reaches(stack[i], stack[j])

\* A level above the seeds with two cells, and a level above that one.
C2_Witness ==
  /\ OrderedGPU
  /\ \E k \in 1 .. (nlevel - 2) :
       /\ levels[k + 1] - levels[k] >= 2
       /\ k + 1 <= nlevel - 2
       /\ levels[k + 2] - levels[k + 1] >= 1

\* The drop from c to its neighbour in direction n.
Drop(c, n) == h[c] - h[c + Shift(n)]

\* For two positive drops: the slope in direction a is greater than in b.
Steeper(c, a, b) == Drop(c, a) * Drop(c, a) * dr2(b) > Drop(c, b) * Drop(c, b) * dr2(a)

\* ComputeReceivers has run in this step and h is still the grid it read.
ReceiversFresh == pc \in {"ComputeDonors", "GenerateOrder", "ComputeFlowAcc", "AddUplift"}

\* C3: after ComputeReceivers, for every cell of the frame rec = NO_FLOW exactly
\* when no neighbour is lower; otherwise rec is the direction of greatest
\* slope, the lowest direction winning ties; every halo cell has rec = NO_FLOW.
C3_ReceiverIsSteepestDescent ==
  ReceiversFresh =>
    /\ \A c \in Cells : Halo(c) => rec[c] = NO_FLOW
    /\ \A c \in Cells : Frame(c) =>
         /\ rec[c] = NO_FLOW <=> \A n \in Dirs : ~(h[c + Shift(n)] < h[c])
         /\ rec[c] # NO_FLOW =>
              /\ rec[c] \in Dirs
              /\ Drop(c, rec[c]) > 0
              /\ \A e \in Dirs : Drop(c, e) > 0 =>
                   /\ ~Steeper(c, e, rec[c])
                   /\ e < rec[c] => Steeper(c, rec[c], e)

\* In the second step: a cell whose greatest slope is attained in two
\* directions, a cell that drains along a diagonal, and the second ring.
C3_Witness ==
  /\ ReceiversFresh
  /\ step = 1
  /\ \E c \in Cells : /\ Interior(c)
                      /\ rec[c] # NO_FLOW
                      /\ \E e \in Dirs : /\ e > rec[c]
                                         /\ Drop(c, e) > 0
                                         /\ ~Steeper(c, rec[c], e)
  /\ \E c \in Cells : Interior(c) /\ rec[c] # NO_FLOW /\ rec[c] % 2 = 1
  /\ \A c \in Cells : Ring2(c) => rec[c] = NO_FLOW
\* ComputeFlowAcc of FastScape_RBGPU has run in this step.
AccumulatedGPU == variant = "GPU" /\ pc \in {"AddUplift", "Erode", "ErodeLoop"}

\* The cells whose receiver chain reaches c, c included.
Upstream(c) == {a \in Cells : Reaches(a, c)}

\* C4: after the push-form ComputeFlowAcc, accum[c] = cell_area times the number
\* of cells whose receiver chain reaches c, for every cell c of the stack.
C4_AccumCountsUpstreamCells ==
  AccumulatedGPU =>
    \A i \in StackPos : accum[stack[i]] = cell_area * Cardinality(Upstream(stack[i]))

\* In the second step: a cell that collects at least three cells, one of them
\* two hops away.
C4_Witness ==
  /\ AccumulatedGPU
  /\ step = 1
  /\ \E c \in Cells : /\ accum[c] >= 3 * cell_area
                      /\ \E a \in Cells : /\ rec[a] # NO_FLOW
                                          /\ rec[RecCell(rec, a)] # NO_FLOW
                                          /\ RecCell(rec, RecCell(rec, a)) = c

\* ComputeDonors has run in this step and rec is still the array it read.
DonorsFresh == pc \in {"GenerateOrder", "ComputeFlowAcc", "AddUplift", "Erode", "ErodeLoop"}

\* C5: after ComputeDonors, every cell with a receiver r occurs exactly once in
\* donor[8r..8r+ndon[r]); every entry of a valid donor prefix of r is a cell
\* whose receiver is r; and 0 <= ndon[r] <= 8 for every cell.
C5_ReceiverDonorDuality ==
  DonorsFresh =>
    /\ \A c \in Cells : rec[c] # NO_FLOW =>
         Cardinality({k \in 0 .. (ndon[RecCell(rec, c)] - 1) :
                        donor[8 * RecCell(rec, c) + k] = c}) = 1
    /\ \A r \in Cells : \A k \in 0 .. (ndon[r] - 1) :
         /\ donor[8 * r + k] \in Cells
         /\ rec[donor[8 * r + k]] # NO_FLOW
         /\ RecCell(rec, donor[8 * r + k]) = r
    /\ \A r \in Cells : ndon[r] >= 0 /\ ndon[r] <= 8

\* In the second step: an interior cell with a donor, and a cell that has fewer
\* donors than the entries the first step left in its slots.
C5_Witness ==
  /\ DonorsFresh
  /\ step = 1
  /\ \E r \in Cells : Interior(r) /\ ndon[r] >= 1
  /\ \E r \in Cells : ndon[r] < 8 /\ donor[8 * r + ndon[r]] # Uninit

\* C6: in every state of a run, every cell of the outermost halo and of the
\* second ring has elevation 0.
C6_RingsStayZero == \A c \in Cells : (Halo(c) \/ Ring2(c)) => h[c] = 0

\* The run is over and erosion has lowered a cell that drains into the second ring.
C6_Witness ==
  /\ pc = "Done"
  /\ \E c \in Cells : /\ rec[c] # NO_FLOW
                      /\ Ring2(RecCell(rec, c))
                      /\ h[c] > 0
                      /\ h[c] < (nstep + 1) * UpliftUnits
\* h after every cell of the loops y,x in 2..height-3, 2..width-3 was raised once.
Uplifted(hh) == [c \in Cells |-> IF Interior(c) THEN hh[c] + UpliftUnits ELSE hh[c]]

\* C7: AddUplift, in the loop form of FastScape_RBGPU and in the stack-driven
\* form of FastScape_RBPQ, adds ueq*dt to h of every interior cell exactly once
\* and changes nothing else; no other stage before Erode changes h.
C7_UpliftFrame ==
  [][/\ pc = "AddUplift" =>
          /\ h' = Uplifted(h)
          /\ pc' = "Erode"
          /\ UNCHANGED << accum, rec, donor, ndon, stack, levels, nlevel, nstack,
                          tstack, tlevels, tnlevel, step >>
     /\ pc \in {"ComputeReceivers", "ComputeDonors", "GenerateOrder", "ComputeFlowAcc"}
          => h' = h]_vars

\* AddUplift of FastScape_RBPQ has run with two threads in the second step, on
\* stacks that hold interior cells behind the second-ring cells.
C7_Witness ==
  /\ variant = "PQ"
  /\ nthreads = 2
  /\ step = 1
  /\ pc = "Erode"
  /\ \A t \in Threads : At(tlevels[t], tnlevel[t] - 1) > At(tlevels[t], 1)
  /\ \E c \in Cells : Interior(c) /\ rec[c] # NO_FLOW /\ Interior(RecCell(rec, c))

\* Erode of FastScape_RBGPU is about to run the body of its inner loop for stack[si].
ErodeAt(c) == pc = "ErodeLoop" /\ li < nlevel - 1 /\ si < levels[li + 1] /\ c = stack[si]

\* Erode of FastScape_RBGPU has left its loops.
ErodeOver == pc = "ErodeLoop" /\ li >= nlevel - 1

\* C8: Erode writes h of every cell of the stack that has a receiver exactly
\* once per step and of no cell without receiver; when a cell with a receiver
\* is processed, its receiver is a sink or was written earlier in this step.
C8_ErodeOnceAfterReceiver ==
  /\ pc = "ErodeLoop" => \A c \in Cells : nwrite[c] <= 1
  /\ pc = "ErodeLoop" => \A c \in Cells : rec[c] = NO_FLOW => nwrite[c] = 0
  /\ ErodeOver => \A i \in StackPos : rec[stack[i]] # NO_FLOW => nwrite[stack[i]] = 1
  /\ \A c \in Cells : (ErodeAt(c) /\ rec[c] # NO_FLOW) =>
       /\ nwrite[c] = 0
       /\ rec[RecCell(rec, c)] = NO_FLOW \/ nwrite[RecCell(rec, c)] = 1

\* Erode is at a cell whose receiver has a receiver itself and was written.
C8_Witness ==
  \E c \in Cells : /\ ErodeAt(c)
                   /\ rec[c] # NO_FLOW
                   /\ rec[RecCell(rec, c)] # NO_FLOW
                   /\ nwrite[RecCell(rec, c)] = 1

\* C9: when Erode processes a cell c with a receiver, h0 = h[c] is greater than
\* hn = h[receiver], and the value written lies between hn and h0.
C9_ErosionBetweenReceiverAndSelf ==
  \A c \in Cells : (ErodeAt(c) /\ rec[c] # NO_FLOW) =>
    /\ h[c] > h[RecCell(rec, c)]
    /\ h[RecCell(rec, c)] <= ErodeValue(h, accum, rec, c)
    /\ ErodeValue(h, accum, rec, c) <= h[c]

\* Erode is at a cell whose receiver was lowered in this step, and lowers it
\* to a value strictly between the two elevations.
C9_Witness ==
  \E c \in Cells : /\ ErodeAt(c)
                   /\ rec[c] # NO_FLOW
                   /\ nwrite[RecCell(rec, c)] = 1
                   /\ h[RecCell(rec, c)] < ErodeValue(h, accum, rec, c)
                   /\ ErodeValue(h, accum, rec, c) < h[c]

\* Following receiver links from c ends at a cell without receiver within k hops.
RECURSIVE ReachesSinkIn(_, _)
ReachesSinkIn(c, k) ==
  \/ rec[c] = NO_FLOW
  \/ k > 0 /\ ReachesSinkIn(RecCell(rec, c), k - 1)

\* C10: after ComputeReceivers, the receiver of every cell that has one is
\* strictly lower than the cell; following receiver links from any cell reaches
\* a cell without receiver, and no cell is reached again from its receiver.
C10_ReceiverStrictlyLower ==
  ReceiversFresh =>
    /\ \A c \in Cells : rec[c] # NO_FLOW => h[RecCell(rec, c)] < h[c]
    /\ \A c \in Cells : ReachesSinkIn(c, size)
    /\ \A c \in Cells : rec[c] # NO_FLOW => ~Reaches(RecCell(rec, c), c)

\* In the second step: a chain of two receiver links.
C10_Witness ==
  /\ ReceiversFresh
  /\ step = 1
  /\ \E c \in Cells : rec[c] # NO_FLOW /\ rec[RecCell(rec, c)] # NO_FLOW

\* The stage of run() that follows stage p in the loop body.
StageAfter(p) ==
  CASE p = "ComputeReceivers" -> {"ComputeDonors"}
    [] p = "ComputeDonors"    -> {"GenerateOrder"}
    [] p = "GenerateOrder"    -> {"ComputeFlowAcc", "Abort"}
    [] p = "ComputeFlowAcc"   -> {"AddUplift"}
    [] p = "AddUplift"        -> {"Erode"}
    [] p = "Erode"            -> {"ErodeLoop", "ErodeP"}
    [] OTHER                  -> {p, "ComputeReceivers", "Done"}

\* rec, donor, ndon, stack, levels and accum are what the first four stages of
\* FastScape_RBGPU make of the elevations hh.
DerivedGPU(hh) ==
  LET o == OrderOf(rec, ndon, donor)
  IN  /\ rec = [c \in Cells |-> IF Interior(c) THEN ReceiverOf(hh, c) ELSE NO_FLOW]
      /\ \A c \in Cells : Frame(c) =>
           /\ ndon[c] = Len(DonorScan(rec, c, 0))
           /\ DonorsOf(ndon, donor, c) = DonorScan(rec, c, 0)
      /\ nstack = Len(o.stk)
      /\ \A i \in StackPos : stack[i] = o.stk[i + 1]
      /\ nlevel = Len(o.lv) - 1
      /\ \A k \in 0 .. nlevel : levels[k] = o.lv[k + 1]
      /\ accum = FlowAccLevels([c \in Cells |-> cell_area], nlevel - 2)

\* The same for the stages of FastScape_RBP.
DerivedP(hh) ==
  LET d == DonorsPush(rec, 0, [c \in Cells |-> 0], donor)
      o == OrderOfP(rec, ndon, donor)
  IN  /\ rec = [c \in Cells |-> IF Interior(c) THEN ReceiverOf(hh, c) ELSE NO_FLOW]
      /\ ndon = d.nd
      /\ donor = d.dn
      /\ nstack = Len(o.stk)
      /\ \A i \in StackPos : stack[i] = o.stk[i + 1]
      /\ nlevel = Len(o.lv) - 1
      /\ \A k \in 0 .. nlevel : levels[k] = o.lv[k + 1]
      /\ accum = FlowAccStackP([c \in Cells |-> cell_area], size - 1)

\* What C11 asks of one step of a run of FastScape_RBGPU or FastScape_RBP.
StagesInOrderStep ==
  variant \in {"GPU", "P"} =>
    /\ pc' \in StageAfter(pc)
    /\ (pc \in {"ErodeLoop", "ErodeP"} /\ pc' # pc) => step' = step + 1
    /\ pc \in {"AddUplift", "Erode", "ErodeLoop", "ErodeP"} =>
         UNCHANGED << rec, donor, ndon, stack, levels, nlevel, nstack, accum, hstep >>
    /\ pc = "AddUplift" => h = hstep
    /\ pc = "Erode" => h = Uplifted(hstep)
    /\ (pc = "Erode" /\ variant = "GPU") => DerivedGPU(hstep)
    /\ (pc = "Erode" /\ variant = "P") => DerivedP(hstep)

\* C11: in every iteration of the loop of run() of FastScape_RBGPU and of
\* FastScape_RBP the stages run in the order ComputeReceivers, ComputeDonors,
\* GenerateOrder, ComputeFlowAcc, AddUplift, Erode; Erode starts from the
\* elevations of the step raised by the uplift, AddUplift and Erode leave rec,
\* donor, stack, levels and accum alone, and when Erode starts these are what
\* the first four stages make of the elevations the step started from.
C11_StagesInOrder == [][StagesInOrderStep]_vars

\* In the second step Erode of FastScape_RBGPU has lowered a cell of a level
\* above the first, so that h is no longer the grid the receivers were read from.
C11_Witness ==
  /\ pc = "ErodeLoop"
  /\ step = 1
  /\ li >= 2
  /\ \E c \in Cells : nwrite[c] = 1 /\ h[c] < hstep[c] + UpliftUnits

\* The positions of stack that worker t runs in the parallel for over level l.
BlockOf(l, t) == WorkersOf(l)[t].si .. (WorkersOf(l)[t].end - 1)

\* The cells whose h the loop body of Erode writes, and reads, at position i.
ErodeWrites(i) == IF rec[stack[i]] = NO_FLOW THEN {} ELSE {stack[i]}
ErodeReads(i) ==
  IF rec[stack[i]] = NO_FLOW THEN {} ELSE {stack[i], RecCell(rec, stack[i])}

\* C12: when the parallel for over a level of Erode of FastScape_RBP starts
\* (rec, stack and levels stay as they are until it ends), for any two
\* positions that different workers process, the cell whose h one of them
\* writes is neither written nor read by the other; the workers' blocks make up
\* the level, and the receiver of every cell of the level is at a stack
\* position below the level.
C12_LevelRaceFree ==
  (pc = "ErodeP" /\ li < nlevel - 1 /\ wk = WorkersOf(li)) =>
    /\ \A t, u \in Threads : t # u =>
         \A i \in BlockOf(li, t) : \A j \in BlockOf(li, u) :
           ErodeWrites(i) \cap (ErodeReads(j) \cup ErodeWrites(j)) = {}
    /\ UNION {BlockOf(li, t) : t \in Threads} = levels[li] .. (levels[li + 1] - 1)
    /\ \A t \in Threads : \A i \in BlockOf(li, t) : rec[stack[i]] # NO_FLOW =>
         \E k \in 0 .. (levels[li] - 1) : stack[k] = RecCell(rec, stack[i])

\* In the second step two workers are both inside their blocks of one level,
\* and one of them has lowered a cell while the other still has cells to lower.
C12_Witness ==
  /\ pc = "ErodeP"
  /\ step = 1
  /\ li < nlevel - 1
  /\ TeamOf(li) = 2
  /\ \A t \in Threads : WorkersOf(li)[t].si < wk[t].si /\ wk[t].si < wk[t].end
  /\ \E t, u \in Threads :
       /\ t # u
       /\ \E i \in BlockOf(li, t) : nwrite[stack[i]] = 1 /\ h[stack[i]] < hstep[stack[i]] + UpliftUnits
       /\ \E j \in BlockOf(li, u) : nwrite[stack[j]] = 0 /\ rec[stack[j]] # NO_FLOW

\* The receivers of the elevations hh: ComputeReceivers on an array of NO_FLOW.
RefReceivers(hh) == [c \in Cells |-> IF Interior(c) THEN ReceiverOf(hh, c) ELSE NO_FLOW]

\* Following the links of r from a leads to b in at most k hops.
RECURSIVE RefReaches(_, _, _, _)
RefReaches(r, a, b, k) ==
  \/ a = b
  \/ k > 0 /\ r[a] # NO_FLOW /\ RefReaches(r, a + Shift(r[a]), b, k - 1)

\* The drainage area of every cell under the links of r.
RefArea(r) ==
  LET src == {a \in Cells : r[a] # NO_FLOW}
  IN  [c \in Cells |->
         cell_area * (1 + Cardinality({a \in src \ {c} : RefReaches(r, a, c, size)}))]

\* The elevation of c after erosion, from the uplifted grid hu: a cell without
\* receiver keeps its elevation, any other cell is lowered against the eroded
\* elevation of its receiver.
RECURSIVE RefEroded(_, _, _, _)
RefEroded(hu, r, ar, c) ==
  IF r[c] = NO_FLOW THEN hu[c]
  ELSE NewtonLoop(hu[c], hu[c], 2 * TolUnits, hu[c],
                  RefEroded(hu, r, ar, c + Shift(r[c])), FactMilli(ar[c], r[c]))

\* The function f with its values computed once and kept, not computed anew
\* at every application.
Stored(f) == f @@ << >>

\* The grid one step makes of the grid hh, as a function of hh alone.
StepOf(hh) ==
  LET r  == Stored(RefReceivers(hh))
      ar == Stored(RefArea(r))
      hu == Stored(Uplifted(hh))
  IN  [c \in Cells |-> RefEroded(hu, r, ar, c)]

\* A step of run() has just ended.
StepOver == (pc = "ComputeReceivers" /\ step >= 1) \/ pc = "Done"

\* C13: the elevations at the end of a step are a function of the elevations
\* at its start alone: the same grid whatever the order of the cells of a
\* level, the interleaving of the workers of FastScape_RBP and the number of
\* threads of FastScape_RBPQ.
C13_StepDeterministic == StepOver => h = StepOf(hstep)

\* A run of FastScape_RBP with two workers is over; in its last step a cell and
\* its receiver were both lowered.
C13_Witness ==
  /\ pc = "Done"
  /\ variant = "P"
  /\ nthreads = 2
  /\ \E c \in Cells : /\ rec[c] # NO_FLOW
                      /\ nwrite[c] = 1
                      /\ nwrite[RecCell(rec, c)] = 1
                      /\ h[c] < hstep[c] + UpliftUnits

\* The roots of the flow forest: the cells of the frame without receiver.
Roots == {c \in Cells : Frame(c) /\ rec[c] = NO_FLOW}

\* The sum of f over the set S of cells.
RECURSIVE SumOver(_, _)
SumOver(f, S) ==
  IF S = {} THEN 0
  ELSE LET c == CHOOSE x \in S : TRUE
       IN  f[c] + SumOver(f, S \ {c})

\* C14: after ComputeFlowAcc of FastScape_RBGPU, in every step, the sum of accum
\* over the roots of the flow forest is cell_area times the number of cells
\* whose flow reaches a root, the roots included.
C14_AreaConserved ==
  (variant = "GPU" /\ pc = "AddUplift") =>
    SumOver(accum, Roots) =
      cell_area * Cardinality({a \in Cells : \E r \in Roots : Reaches(a, r)})

\* In the second step: a root of the second ring that collects another cell, a
\* chain of two links, and fewer roots than cells.
C14_Witness ==
  /\ variant = "GPU"
  /\ pc = "AddUplift"
  /\ step = 1
  /\ \E r \in Roots : Ring2(r) /\ accum[r] >= 2 * cell_area
  /\ \E c \in Cells : rec[c] # NO_FLOW /\ rec[RecCell(rec, c)] # NO_FLOW
  /\ Cardinality(Roots) < (width - 2) * (height - 2)

\* C15: after GenerateOrder of FastScape_RBGPU, levels[0..nlevel-1] is strictly
\* increasing from levels[0] = 0 to levels[nlevel-1] = nstack: every level
\* [levels[k], levels[k+1]) with 0 <= k < nlevel-1 holds a cell.
C15_LevelsStrictlyIncreasing ==
  OrderedGPU =>
    /\ levels[0] = 0
    /\ levels[nlevel - 1] = nstack
    /\ \A k \in 0 .. (nlevel - 2) : levels[k] < levels[k + 1]

\* The cell (y,x) of the grid.
CellAt(y, x) == y * width + x

\* C16 as claimed: on the flat 5x5 grid, after every step s >= 1, every rec is
\* NO_FLOW, every accum is cell_area, erosion has changed no elevation and the
\* cell (2,2) has elevation s*ueq*dt.
C16_FlatEveryStep ==
  (width = 5 /\ StepOver) =>
    /\ \A c \in Cells : rec[c] = NO_FLOW
    /\ \A c \in Cells : accum[c] = cell_area
    /\ h = Uplifted(hstep)
    /\ h[CellAt(2, 2)] = step * UpliftUnits

\* C16, amended: on the flat 5x5 grid, after the first step every rec is
\* NO_FLOW, every accum is cell_area, erosion has changed no elevation and the
\* cell (2,2) has elevation ueq*dt; after every later step s the cell (2,2) has
\* rec = 0, every other cell has rec = NO_FLOW and elevation 0, and the
\* elevation of (2,2) lies strictly between 0 and s*ueq*dt.
C16_FlatFirstStep ==
  (width = 5 /\ StepOver) =>
    /\ step = 1 =>
         /\ \A c \in Cells : rec[c] = NO_FLOW
         /\ \A c \in Cells : accum[c] = cell_area
         /\ h = Uplifted(hstep)
         /\ h[CellAt(2, 2)] = UpliftUnits
    /\ step >= 2 =>
         /\ rec[CellAt(2, 2)] = 0
         /\ \A c \in Cells : c # CellAt(2, 2) => rec[c] = NO_FLOW /\ h[c] = 0
         /\ 0 < h[CellAt(2, 2)]
         /\ h[CellAt(2, 2)] < step * UpliftUnits

\* The second step of the flat 5x5 grid is over and has lowered the cell (2,2).
C16_Witness ==
  /\ width = 5
  /\ StepOver
  /\ step = 2
  /\ nwrite[CellAt(2, 2)] = 1
  /\ h[CellAt(2, 2)] < hstep[CellAt(2, 2)] + UpliftUnits

\* C17 as claimed: on the 7x7 grid with the single peak, after one step the
\* cell (3,3) has rec = NO_FLOW, accum = cell_area and elevation 1.0 + ueq*dt.
C17_PeakIsSink ==
  (width = 7 /\ StepOver /\ step = 1) =>
    /\ rec[CellAt(3, 3)] = NO_FLOW
    /\ accum[CellAt(3, 3)] = cell_area
    /\ h[CellAt(3, 3)] = Scale + UpliftUnits

\* C17, amended: on the 7x7 grid with the single peak, after one step the cell
\* (3,3) has rec = 0 (its left neighbour), accum = cell_area and an elevation
\* strictly between ueq*dt, the elevation of its neighbours, and 1.0 + ueq*dt.
C17_PeakDrainsLeft ==
  (width = 7 /\ StepOver /\ step = 1) =>
    /\ rec[CellAt(3, 3)] = 0
    /\ accum[CellAt(3, 3)] = cell_area
    /\ UpliftUnits < h[CellAt(3, 3)]
    /\ h[CellAt(3, 3)] < Scale + UpliftUnits
    /\ h[CellAt(3, 2)] = UpliftUnits

\* The first step of the single peak is over; Erode has written the cell (3,3).
C17_Witness ==
  /\ width = 7
  /\ StepOver
  /\ step = 1
  /\ nwrite[CellAt(3, 3)] = 1
  /\ hstep[CellAt(3, 3)] = Scale

\* The first four stages of the first step have run on the 10x10 ramp.
RampAccumulated == width = 10 /\ step = 0 /\ pc = "AddUplift"

\* The cells of level k of the stack.
LevelCells(k) == {stack[i] : i \in levels[k] .. (levels[k + 1] - 1)}

C19_GraphIdempotent ==
  (variant = "GPU" /\ pc = "GenerateOrder") =>
    LET rec2  == ReceiversPass(h, rec)
        ndon2 == DonorsCount(rec2, ndon)
        don2  == DonorsFill(rec2, donor)
    IN  /\ rec2 = rec
        /\ ndon2 = ndon
        /\ \A c \in Cells : \A k \in 0 .. (ndon2[c] - 1) : don2[8 * c + k] = donor[8 * c + k]

\* The graph has been built in the second step, over the arrays the first
\* step left behind: a cell of the second ring has a donor, and so has a cell
\* that has a receiver itself.
C19_Witness ==
  /\ variant = "GPU"
  /\ pc = "GenerateOrder"
  /\ step = 1
  /\ h # Uplifted([c \in Cells |-> 0])
  /\ \E c \in Cells : Ring2(c) /\ ndon[c] >= 1
  /\ \E c \in Cells : rec[c] # NO_FLOW /\ ndon[c] >= 1

\* One level of the push loop of FastScape_RBGPU::ComputeFlowAcc over a stack
\* stk: positions s in [s, lvlend).
RECURSIVE PushCells(_, _, _, _, _)
PushCells(acc, r, stk, s, lvlend) ==
  IF s >= lvlend THEN acc
  ELSE LET c == At(stk, s)
       IN  IF r[c] # NO_FLOW
           THEN PushCells([acc EXCEPT ![RecCell(r, c)] = @ + acc[c]], r, stk, s + 1, lvlend)
           ELSE PushCells(acc, r, stk, s + 1, lvlend)

\* for(li=nlevel-2;li>=1;li--) over the levels lv of the stack stk.
RECURSIVE PushLevels(_, _, _, _, _)
PushLevels(acc, r, stk, lv, l) ==
  IF l < 1 THEN acc
  ELSE PushLevels(PushCells(acc, r, stk, At(lv, l), At(lv, l + 1)), r, stk, lv, l - 1)

\* accum as GenerateOrder and the push-form ComputeFlowAcc of FastScape_RBGPU
\* leave it on the arrays r, nd, dn.
PushForm(r, nd, dn) ==
  LET o == OrderOf(r, nd, dn)
  IN  PushLevels([c \in Cells |-> cell_area], r, o.stk, o.lv, Len(o.lv) - 3)

\* The pull-form ComputeFlowAcc of FastScape_RBPQ has run.
AccumulatedPQ == variant = "PQ" /\ pc = "AddUplift"

\* C20: after the pull-form ComputeFlowAcc of FastScape_RBPQ, accum[c] is the
\* value the push form of FastScape_RBGPU computes on the same rec, ndon and
\* donor, for every cell c of [1..H-2]x[1..W-2].
C20_PushPullAgree ==
  AccumulatedPQ =>
    LET push == PushForm(rec, ndon, donor)
    IN  \A c \in Cells : Frame(c) => accum[c] = push[c]

\* C21: after GenerateOrder of FastScape_RBGPU, level 0 of the stack is the set
\* of frame cells with rec = NO_FLOW, and every cell of a level k >= 1 has its
\* receiver in level k-1 and in no level from k on.
C21_LevelIsDepth ==
  (variant = "GPU" /\ pc = "ComputeFlowAcc") =>
    /\ LevelCells(0) = {c \in Cells : Frame(c) /\ rec[c] = NO_FLOW}
    /\ \A k \in 1 .. (nlevel - 2) : \A c \in LevelCells(k) :
         /\ rec[c] # NO_FLOW
         /\ RecCell(rec, c) \in LevelCells(k - 1)
         /\ \A j \in k .. (nlevel - 2) : RecCell(rec, c) \notin LevelCells(j)

\* The ordering has an interior sink in level 0 and cells in levels 1 and 2.
C21_Witness ==
  /\ variant = "GPU"
  /\ pc = "ComputeFlowAcc"
  /\ \E c \in LevelCells(0) : Interior(c)
  /\ LevelCells(1) # {}
  /\ nlevel >= 4
  /\ LevelCells(2) # {}

\* The donors of c in the arrays nd, dn, as a set.
DonorCells(nd, dn, c) == {dn[8 * c + k] : k \in 0 .. (nd[c] - 1)}

\* The graph of the current step has been built.
GraphBuilt == pc = "GenerateOrder"

\* C22: on every rec that ComputeReceivers produces, the push-form
\* ComputeDonors of FastScape_RBP and the pull-form ComputeDonors of
\* FastScape_RBGPU leave the same ndon[c] and the same set of donors in
\* donor[8c .. 8c+ndon[c]) for every frame cell c.
C22_PushPullDonorsAgree ==
  GraphBuilt =>
    LET push == DonorsPush(rec, 0, [c \in Cells |-> 0], donor)
        pnd  == DonorsCount(rec, ndon)
        pdn  == DonorsFill(rec, donor)
    IN  \A c \in Cells : Frame(c) =>
          /\ push.nd[c] = pnd[c]
          /\ DonorCells(push.nd, push.dn, c) = DonorCells(pnd, pdn, c)
          /\ variant = "P" => ndon[c] = pnd[c] /\ DonorCells(ndon, donor, c) = DonorCells(pnd, pdn, c)
          /\ variant # "P" => ndon[c] = push.nd[c]
                               /\ DonorCells(ndon, donor, c) = DonorCells(push.nd, push.dn, c)

\* FastScape_RBP has built the donors of a cell with two donors, and the pull
\* form lists them in another order.
C22_Witness ==
  /\ GraphBuilt
  /\ variant = "P"
  /\ \E c \in Cells :
       /\ Frame(c)
       /\ ndon[c] >= 2
       /\ DonorsOf(ndon, donor, c) # DonorScan(rec, c, 0)

\* One step of a run of FastScape_RBGPU or FastScape_RBP, seen from the loop of
\* run(): the stages follow one another in the order of the loop body, step
\* grows by one when Erode returns and at no other time, the body is entered
\* again while step <= nstep, and the run is over when step = nstep + 1.
RunLoopStep ==
  variant \in {"GPU", "P"} =>
    /\ pc' \in StageAfter(pc)
    /\ nstep' = nstep
    /\ step' # step => pc \in {"ErodeLoop", "ErodeP"} /\ pc' # pc
    /\ (pc \in {"ErodeLoop", "ErodeP"} /\ pc' # pc) =>
         /\ step' = step + 1
         /\ pc' = IF step' <= nstep THEN "ComputeReceivers" ELSE "Done"
    /\ pc' = "ComputeReceivers" => step' \in 0 .. nstep
    /\ pc' = "Done" => step' = nstep + 1

C26_AssertionsHoldP ==
  (variant = "P" /\ pc = "GenerateOrder") => AssertsOfP(rec, ndon, donor)

\* The while loop of GenerateOrder has run nlevel-1 times when nlevel-- is
\* done: its j-th iteration, j >= 1, wrote levels[j+1].
OrderIterations == nlevel - 1

\* The number of donors the j-th iteration of the while loop appended.
OrderAppended(j) == levels[j + 1] - levels[j]

\* C23: the while loop of GenerateOrder of FastScape_RBGPU ends, no cell is on
\* the stack twice, and the loop stops at the first iteration that appends no
\* donor: every iteration before the last one appends a donor.
C23_OrderingStopsAtFirstEmpty ==
  (variant = "GPU" /\ pc = "ComputeFlowAcc") =>
    /\ \A i, j \in StackPos : i # j => stack[i] # stack[j]
    /\ OrderAppended(OrderIterations) = 0
    /\ \A j \in 1 .. (OrderIterations - 1) : OrderAppended(j) > 0

\* The cells of the private stack of thread t, and those of its level l.
PQCells(t) == {tstack[t][i] : i \in 1 .. Len(tstack[t])}
PQLevelCells(t, l) == {At(tstack[t], i) : i \in At(tlevels[t], l) .. (At(tlevels[t], l + 1) - 1)}

\* The private stacks of FastScape_RBPQ are built and in use.
ShardsBuilt == variant = "PQ" /\ pc \in {"ComputeFlowAcc", "AddUplift", "Erode"}

\* C24: in FastScape_RBPQ with T threads, every second-ring cell is a seed of
\* exactly one thread (its level 0) and every interior sink of exactly one
\* thread (its level 1); the cells on the private stacks are the frame cells,
\* and the stacks together have as many entries as the frame has cells, so
\* that every frame cell is on exactly one stack, once; the donors ComputeFlowAcc reads for a
\* cell of a thread's stack and the receiver Erode reads for it are on the
\* same stack.
C24_ShardsPartitionFrame ==
  ShardsBuilt =>
    /\ UNION {PQCells(t) : t \in Threads} = {c \in Cells : Frame(c)}
    /\ SumOver([t \in Threads |-> Len(tstack[t])], Threads) = (width - 2) * (height - 2)
    /\ \A c \in Cells : Ring2(c) => \E t \in Threads : c \in PQLevelCells(t, 0)
    /\ \A c \in Cells : (Interior(c) /\ rec[c] = NO_FLOW) =>
         \E t \in Threads : c \in PQLevelCells(t, 1)
    /\ \A t \in Threads :
         LET own == PQCells(t)
         IN  \A c \in own :
               /\ DonorCells(ndon, donor, c) \subseteq own
               /\ rec[c] # NO_FLOW => RecCell(rec, c) \in own

\* Two threads have built their stacks; each has a cell that drains into one
\* of its seeds, and the second thread has an interior sink.
C24_Witness ==
  /\ ShardsBuilt
  /\ nthreads = 2
  /\ \A t \in Threads : tnlevel[t] >= 4 /\ PQLevelCells(t, 2) # {}
  /\ PQLevelCells(1, 1) # {}

\* Thread u has left stage a of step s behind.
Finished(u, a, s) == Progress(u) > s * Len(Stages) + StageIdx(a)

\* The stages that read rec: ComputeDonors, the loop of GenerateOrder over
\* the interior, Erode.
ReadsRec(t) == tpc[t].at \in {"D", "S", "E"}

\* C25: in the multi-threaded run of FastScape_RBPQ, a thread in the while
\* loop of GenerateOrder (it reads ndon and donor) finds that every thread has
\* finished its share of ComputeDonors of that step; no thread is in a stage
\* that reads rec while another thread is still in ComputeReceivers, which
\* writes rec; and a thread in ComputeReceivers of step s+1 (it reads h) finds
\* that every thread has finished Erode of step s.
C25_BarriersOrderAccesses ==
  pc = "Parallel" =>
    \A t \in Threads : \A u \in Threads \ {t} :
      /\ tpc[t].at = "W" => Finished(u, "D", tpc[t].step)
      /\ ReadsRec(t) => tpc[u].at # "R"
      /\ (tpc[t].at = "R" /\ tpc[t].step >= 1) => Finished(u, "E", tpc[t].step - 1)

\* Two threads; one is in the while loop of GenerateOrder of the second step
\* while the other still waits at the barrier before it, and the donors of
\* cells of the first thread's stack were written by the other thread.
C25_Witness ==
  /\ pc = "Parallel"
  /\ nthreads = 2
  /\ \E t \in Threads : \E u \in Threads \ {t} :
       /\ tpc[t] = [at |-> "W", step |-> 1]
       /\ tpc[u] = [at |-> "B3", step |-> 1]
       /\ \E i \in 1 .. Len(tstack[t]) :
            /\ tstack[t][i] \in DonorShare(u)
            /\ ndon[tstack[t][i]] > 0

\* Every interleaving of the threads ends a step with the elevations of the
\* reference step.
ThreadsStepResult ==
  (pc = "Parallel" /\ \A t \in Threads : tpc[t].at = "B4") => h = StepOf(hstep)


\* ComputeFlowAcc of FastScape_RBGPUgraph has returned.
AccumulatedGraph == variant = "Graph" /\ pc = "AddUplift"

\* C27: after the frontier-based ComputeFlowAcc of FastScape_RBGPUgraph,
\* accum[c] = cell_area times the number of cells whose receiver chain
\* reaches c, c included, for every frame cell c, and no cell with donors was
\* on the frontier more than once, so that no donor's contribution was added
\* to a cell twice.
C27_FrontierAccumCountsUpstream ==
  AccumulatedGraph =>
    \A c \in Cells : Frame(c) =>
      /\ accum[c] = RefArea(rec)[c]
      /\ ndon[c] > 0 => nfront[c] = 1


\* The while loop of Erode of FastScape_RBGPUgraph is at its test.
ErodeWalk == variant = "Graph" /\ pc = "ErodeWhile"

\* The frontier walk of Erode up to the current round: no cell came onto the
\* frontier twice or was eroded twice, no sink was eroded, the cells that
\* left the frontier and have a receiver were eroded, those still to come
\* were not, and the receiver of a frontier cell left the frontier in an
\* earlier round.
ErodeWalkOrdered ==
  \A c \in Cells :
    /\ nfront[c] <= 1
    /\ nwrite[c] <= 1
    /\ (~Frame(c) \/ rec[c] = NO_FLOW) => nwrite[c] = 0
    /\ graph_mask[c] => (Frame(c) /\ nfront[c] = 1 /\ nwrite[c] = 0)
    /\ (Frame(c) /\ rec[c] # NO_FLOW /\ nfront[c] = 1 /\ ~graph_mask[c]) => nwrite[c] = 1
    /\ (graph_mask[c] /\ rec[c] # NO_FLOW) =>
         LET n == RecCell(rec, c)
         IN  /\ ~graph_mask[n]
             /\ nfront[n] = 1
             /\ rec[n] # NO_FLOW => nwrite[n] = 1

\* The loop has ended: the frontier is empty and every frame cell has been
\* on it once; every cell with a receiver was eroded once.
ErodeWalkDone ==
  /\ ErodeWalk
  /\ keep_going = 0
  /\ Frontier = {}
  /\ \A c \in Cells : Frame(c) =>
       /\ nfront[c] = 1
       /\ graph_visited[c]
       /\ nwrite[c] = (IF rec[c] = NO_FLOW THEN 0 ELSE 1)

\* C28: in every step of FastScape_RBGPUgraph, Erode puts each frame cell on
\* the frontier exactly once, erodes every cell with a receiver exactly once
\* and in a later round than the one that took its receiver off the
\* frontier, erodes no sink, and its loop ends, with keep_going = 0, when
\* every frame cell has been processed.
C28_FrontierErodesOnce ==
  /\ [](ErodeWalk => ErodeWalkOrdered)
  /\ []((ErodeWalk /\ keep_going = 0) => ErodeWalkDone)
  /\ ErodeWalk ~> ErodeWalkDone

\* Erode has ended after three rounds or more, in the second step: an
\* interior sink was on the frontier and a cell was eroded whose receiver was
\* eroded too.
C28_Witness ==
  /\ ErodeWalkDone
  /\ step = 1
  /\ li >= 3
  /\ \E c \in Cells : Interior(c) /\ rec[c] = NO_FLOW /\ nfront[c] = 1
  /\ \E c \in Cells : /\ nwrite[c] = 1
                      /\ nwrite[RecCell(rec, c)] = 1

\* C29: GenerateOrder of the gang-independent FastScape_RBGPU throws "Stack
\* width exceeded bounds!" only if some gang has appended more than
\* g_stack_width entries to its own part of stack, and when every gang's part
\* stays within g_stack_width entries no exception is thrown.
GangOverflows(g) == \A o \in gout[g] : o.n > g_stack_width

C29_ThrowsOnlyOnShardOverflow ==
  /\ thrown = "Stack width exceeded bounds!" => \E g \in Gangs : GangOverflows(g)
  /\ (pc = "Thrown" /\ \A g \in Gangs : ~GangOverflows(g)) => thrown = ""

====
